---------------------------- MODULE Spec2Model ----------------------------
(***************************************************************************)
(* Force-constants construction and symmetrization of phonopy              *)
(* (harmonic/force_constants.py), as state machines over exact rational    *)
(* arithmetic.  Arrays are 0-based functions, as in the Python source.     *)
(***************************************************************************)
EXTENDS Integers, Sequences, FiniteSets, TLC

VARIABLES
    call,             \* name of the entry point that ran last ("none" before any)
    error,            \* exception the last call ended in ("none" when it returned)
    permutations,     \* atomic permutations, [num_rot, num_pos, at[sym][atom]]
    atom_list_done,   \* list (sequence) of atoms whose rows are known
    map_atoms,        \* returned map_atoms (<<>> when nothing was returned)
    map_syms,         \* returned map_syms  (<<>> when nothing was returned)
    force_constants,  \* the caller's tensor buffer, fc[i][j][a][b]
    fc_in,            \* the caller's tensor at the moment of the call
    geometry,         \* [lattice, rotations] handed to the call
    atom_list,        \* atom_list argument (<<>> stands for None)
    primitive,        \* [p2s_map, s2p_map, permutations] of the primitive cell
    dataset,          \* solved rows per displaced atom (the solver's output)
    level,            \* level argument of the symmetrization (-1 when unused)
    crystal,          \* [kind, positions, translations, map_atoms] of the
                      \* supercell and its symmetry ("none": not supplied)
    phonoc,           \* whether "import phonopy._phonopy" succeeds
    per_index,        \* index argument of the per-index pass (-1 when unused)
    result,           \* tensor returned by the call (<<>> when none)
    args,             \* remaining arguments of the calls made so far (<<>>: none)
    trace,            \* what the calls did or printed, in order
    thermal           \* the ThermalProperties object: [temperatures,
                      \* frequencies, weights, cutoff_frequency] (<<>>: none)

vars == <<call, error, permutations, atom_list_done, map_atoms, map_syms,
          force_constants, fc_in, geometry, atom_list, primitive, dataset,
          level, per_index, crystal, phonoc, result, args, trace, thermal>>

-----------------------------------------------------------------------------
(* Bounds of the model *)

MaxAtoms == 3
MaxRot == 2
MaxDone == 2
MaxLevel == 2
MaxSeed == 2
MaxCells == 2
MaxBasis == 2
MaxCutoffs == 2
MaxRadius == 3
MaxSiteSym == 2
MaxDisp == 2
MaxEnergyAtoms == 2
MaxEnergySets == 2
MaxCalls == 2
MaxEntries == 3
MaxTemperatures == 3
MaxQpoints == 2

(* Number of Cartesian axes: the 3 of every (.., 3, 3) shape in the source *)
Dim == 3

Axes == 0 .. (Dim - 1)
None == << >>

Range(f) == {f[x] : x \in DOMAIN f}

(* the atoms of a set as an ascending list *)
RECURSIVE SortedList(_)
SortedList(S) ==
    IF S = {} THEN << >>
    ELSE LET m == CHOOSE x \in S : \A y \in S : x <= y
         IN  <<m>> \o SortedList(S \ {m})

(* The element of a one-element set.  The({e(x) : x \in {v}}) is e(v)     *)
(* with v evaluated once, before e.                                        *)
The(S) == CHOOSE x \in S : TRUE

(* A 0-based array with every element evaluated once, when it is built *)
RECURSIVE EagerSeq(_, _)
EagerSeq(f, n) ==
    IF n = 0 THEN << >> ELSE Append(EagerSeq(f, n - 1), f[n - 1])
Array(f) ==
    The({[i \in 0 .. (Len(s) - 1) |-> s[i + 1]] :
            s \in {EagerSeq(f, Cardinality(DOMAIN f))}})

-----------------------------------------------------------------------------
(* Exact arithmetic: a rational is <<numerator, denominator>> in lowest    *)
(* terms with a positive denominator.                                      *)

Abs(n) == IF n < 0 THEN -n ELSE n

RECURSIVE Gcd(_, _)
Gcd(a, b) == IF b = 0 THEN a ELSE Gcd(b, a % b)

Rat(n, d) ==
    LET g == Gcd(Abs(n), Abs(d))
        s == IF d < 0 THEN -1 ELSE 1
    IN  <<(s * n) \div g, (s * d) \div g>>

RInt(n) == <<n, 1>>
RZero == <<0, 1>>
RAdd(p, q) ==
    The({Rat(x[1] * y[2] + y[1] * x[2], x[2] * y[2]) : x \in {p}, y \in {q}})
RNeg(p) == The({<<-x[1], x[2]>> : x \in {p}})
RSub(p, q) == RAdd(p, RNeg(q))
RMul(p, q) == The({Rat(x[1] * y[1], x[2] * y[2]) : x \in {p}, y \in {q}})
RDiv(p, q) == The({Rat(x[1] * y[2], x[2] * y[1]) : x \in {p}, y \in {q}})

(* sum of f[0] .. f[n-1] *)
RECURSIVE RSum(_, _)
RSum(f, n) == IF n = 0 THEN RZero ELSE RAdd(RSum(f, n - 1), f[n - 1])

-----------------------------------------------------------------------------
(* 3x3 matrices m[a][b] and np.dot / .T / np.linalg.inv on them *)

MatOf(f(_, _)) == Array([a \in Axes |-> Array([b \in Axes |-> f(a, b)])])
MatZero == MatOf(LAMBDA a, b : RZero)
MatEye == MatOf(LAMBDA a, b : IF a = b THEN RInt(1) ELSE RZero)
MatInt(m) == MatOf(LAMBDA a, b : RInt(m[a + 1][b + 1]))

MatMul(A, B) ==
    The({MatOf(LAMBDA a, b : RSum([c \in Axes |-> RMul(X[a][c], Y[c][b])], Dim)) :
            X \in {A}, Y \in {B}})
MatT(A) == The({MatOf(LAMBDA a, b : X[b][a]) : X \in {A}})
MatAdd(A, B) ==
    The({MatOf(LAMBDA a, b : RAdd(X[a][b], Y[a][b])) : X \in {A}, Y \in {B}})
MatScale(A, q) ==
    The({MatOf(LAMBDA a, b : RMul(X[a][b], y)) : X \in {A}, y \in {q}})

Cofactor(A, a, b) ==
    RSub(RMul(A[(a + 1) % Dim][(b + 1) % Dim], A[(a + 2) % Dim][(b + 2) % Dim]),
         RMul(A[(a + 1) % Dim][(b + 2) % Dim], A[(a + 2) % Dim][(b + 1) % Dim]))
MatDet(A) ==
    The({RSum([b \in Axes |-> RMul(X[0][b], Cofactor(X, 0, b))], Dim) :
            X \in {A}})
MatInv(A) ==
    The({MatOf(LAMBDA a, b : RDiv(Cofactor(X, b, a), det)) :
            <<X, det>> \in {<<A, MatDet(A)>>}})

(* vectors v[a] and np.dot(v, m.T) *)
VecOf(f(_)) == Array([a \in Axes |-> f(a)])
VecInt(v) == VecOf(LAMBDA a : RInt(v[a + 1]))
VecAdd(u, v) ==
    The({VecOf(LAMBDA a : RAdd(x[a], y[a])) : x \in {u}, y \in {v}})
VecSub(u, v) ==
    The({VecOf(LAMBDA a : RSub(x[a], y[a])) : x \in {u}, y \in {v}})
MatVec(A, v) ==
    The({VecOf(LAMBDA a : RSum([c \in Axes |-> RMul(X[a][c], y[c])], Dim)) :
            X \in {A}, y \in {v}})

(* variant: R^-1 x M x R *)
similarity_transformation_inverse_first(rot, mat) ==
    MatMul(MatInv(rot), MatMul(mat, rot))

(* similarity_transformation: R x M x R^-1 *)
similarity_transformation(rot, mat) == MatMul(rot, MatMul(mat, MatInv(rot)))

-----------------------------------------------------------------------------
(* _get_sym_mappings_from_permutations *)

Atoms(n) == 0 .. (n - 1)

(* variant: the scan has no break, the last matching operation wins *)
RECURSIVE first_sym_index_no_break(_, _, _, _)
first_sym_index_no_break(perms, done, atom_todo, s) ==
    IF s = perms.num_rot THEN -1
    ELSE LET later == first_sym_index_no_break(perms, done, atom_todo, s + 1)
         IN  IF later # -1 THEN later
             ELSE IF perms.at[s][atom_todo] \in done THEN s ELSE -1

(* the inner for/break: first sym_index from s on whose permutation sends  *)
(* atom_todo into the done set, -1 when the loop runs out (for .. else)    *)
RECURSIVE first_sym_index(_, _, _, _)
first_sym_index(perms, done, atom_todo, s) ==
    IF s = perms.num_rot THEN -1
    ELSE IF perms.at[s][atom_todo] \in done THEN s
    ELSE first_sym_index(perms, done, atom_todo, s + 1)

(* variant: an atom without a match is passed over instead of raising *)
RECURSIVE sym_mappings_loop_skip(_, _, _, _)
sym_mappings_loop_skip(perms, done, atom_todo, acc) ==
    IF atom_todo = perms.num_pos THEN acc
    ELSE LET s == first_sym_index(perms, done, atom_todo, 0)
         IN  IF s = -1
             THEN sym_mappings_loop_skip(perms, done, atom_todo + 1, acc)
             ELSE sym_mappings_loop_skip(perms, done, atom_todo + 1,
                    [acc EXCEPT !.map_atoms[atom_todo] = perms.at[s][atom_todo],
                                !.map_syms[atom_todo] = s])

(* variant: the atom itself is recorded instead of its image *)
RECURSIVE sym_mappings_loop_self(_, _, _, _)
sym_mappings_loop_self(perms, done, atom_todo, acc) ==
    IF atom_todo = perms.num_pos THEN acc
    ELSE LET s == first_sym_index(perms, done, atom_todo, 0)
         IN  IF s = -1 THEN [acc EXCEPT !.error = "ValueError"]
             ELSE sym_mappings_loop_self(perms, done, atom_todo + 1,
                    [acc EXCEPT !.map_atoms[atom_todo] = atom_todo,
                                !.map_syms[atom_todo] = s])

(* the outer loop over atom_todo; raises at the first atom with no match *)
RECURSIVE sym_mappings_loop(_, _, _, _)
sym_mappings_loop(perms, done, atom_todo, acc) ==
    IF atom_todo = perms.num_pos THEN acc
    ELSE LET s == first_sym_index(perms, done, atom_todo, 0)
         IN  IF s = -1 THEN [acc EXCEPT !.error = "ValueError"]
             ELSE sym_mappings_loop(perms, done, atom_todo + 1,
                    [acc EXCEPT !.map_atoms[atom_todo] = perms.at[s][atom_todo],
                                !.map_syms[atom_todo] = s])

_get_sym_mappings_from_permutations(perms, done_list) ==
    LET done == Range(done_list)
        filled == [error |-> "none",
                   map_atoms |-> [a \in Atoms(perms.num_pos) |-> -1],
                   map_syms |-> [a \in Atoms(perms.num_pos) |-> -1]]
        r == sym_mappings_loop(perms, done, 0, filled)
    IN  IF r.error # "none" THEN r
        ELSE IF \/ (Range(r.map_atoms) \cap done) # Range(r.map_atoms)
                \/ -1 \in Range(r.map_atoms)
                \/ -1 \in Range(r.map_syms)
             THEN [r EXCEPT !.error = "AssertionError"]
             ELSE r

-----------------------------------------------------------------------------
(* Tensors fc[i][j][a][b]: i over shape[0] rows, j over shape[1] columns *)

Shape0(fc) == Cardinality(DOMAIN fc)
Shape1(fc) == Cardinality(DOMAIN fc[0])
IsSquare(fc) == Shape0(fc) = Shape1(fc)

(* np.sum(fc2[:, i, j, k]) and np.sum(fc2[i, :, j, k]) *)
SumOverFirst(fc2, i, j, k) ==
    RSum([r \in DOMAIN fc2 |-> fc2[r][i][j][k]], Shape0(fc2))
SumOverSecond(fc2, i, j, k) ==
    RSum([c \in DOMAIN fc2[i] |-> fc2[i][c][j][k]], Shape1(fc2))

(* Each (i, j, k) slice is read and rewritten on its own, the sum taken    *)
(* before the subtraction: the slices are disjoint, so the in-place loop   *)
(* equals this simultaneous update.                                        *)
drift_over_first(fc2) ==
    Array([i \in DOMAIN fc2[0] |->
        MatOf(LAMBDA j, k : RDiv(SumOverFirst(fc2, i, j, k),
                                 RInt(Shape0(fc2))))])
drift_over_second(fc2) ==
    Array([i \in DOMAIN fc2 |->
        MatOf(LAMBDA j, k : RDiv(SumOverSecond(fc2, i, j, k),
                                 RInt(Shape1(fc2))))])

set_translational_invariance_per_index(fc0, index) ==
    IF index = 0
    THEN The({Array([r \in DOMAIN fc2 |-> Array([i \in DOMAIN fc2[r] |->
                 MatOf(LAMBDA j, k : RSub(fc2[r][i][j][k], drift[i][j][k]))])]) :
              <<fc2, drift>> \in
                  {<<f, drift_over_first(f)>> : f \in {fc0}}})
    ELSE The({Array([i \in DOMAIN fc2 |-> Array([c \in DOMAIN fc2[i] |->
                 MatOf(LAMBDA j, k : RSub(fc2[i][c][j][k], drift[i][j][k]))])]) :
              <<fc2, drift>> \in
                  {<<f, drift_over_second(f)>> : f \in {fc0}}})

(* variant: only the pass over index 0 is made *)
set_translational_invariance_first_only(fc) ==
    set_translational_invariance_per_index(fc, 0)

(* variant: only the pass over index 1 is made *)
set_translational_invariance_second_only(fc) ==
    set_translational_invariance_per_index(fc, 1)

(* the calls of "for i in range(2)", in order *)
translational_steps ==
    <<[pass |-> "set_translational_invariance_per_index", index |-> 0],
      [pass |-> "set_translational_invariance_per_index", index |-> 1]>>

RECURSIVE translational_loop(_, _)
translational_loop(fc, steps) ==
    IF steps = << >> THEN fc
    ELSE translational_loop(
             set_translational_invariance_per_index(fc, Head(steps).index),
             Tail(steps))

(* for i in range(2): set_translational_invariance_per_index(fc, index=i) *)
set_translational_invariance(fc) == translational_loop(fc, translational_steps)

(* variant: the mirrored block is read from the live buffer, not the copy *)
perm_sym_block_live(fc, fc_copy, i, j) ==
    MatScale(MatAdd(fc[i][j], MatT(fc[j][i])), <<1, 2>>)

(* variant: the mirrored block is not transposed *)
perm_sym_block_no_transpose(fc, fc_copy, i, j) ==
    MatScale(MatAdd(fc[i][j], fc_copy[j][i]), <<1, 2>>)

(* variant: the sum of the two blocks is not halved *)
perm_sym_block_sum(fc, fc_copy, i, j) ==
    MatAdd(fc[i][j], MatT(fc_copy[j][i]))

(* (force_constants[i, j] + fc_copy[j, i].T) / 2 *)
perm_sym_block(fc, fc_copy, i, j) ==
    MatScale(MatAdd(fc[i][j], MatT(fc_copy[j][i])), <<1, 2>>)

(* variant: a block whose transposed partner is outside the copy is left  *)
(* as it is                                                                *)
RECURSIVE perm_sym_loop_square_part(_, _, _)
perm_sym_loop_square_part(fc0, fc_copy0, k) ==
    The({IF k = Shape0(fc) * Shape1(fc) THEN [fc |-> fc, error |-> "none"]
         ELSE LET i == k \div Shape1(fc)
                  j == k % Shape1(fc)
              IN  IF j >= Shape0(fc_copy) \/ i >= Shape1(fc_copy)
                  THEN perm_sym_loop_square_part(fc, fc_copy, k + 1)
                  ELSE perm_sym_loop_square_part(
                         [fc EXCEPT ![i][j] = perm_sym_block(fc, fc_copy, i, j)],
                         fc_copy, k + 1) :
         fc \in {fc0}, fc_copy \in {fc_copy0}})

(* the double loop of set_permutation_symmetry from flat position k on;    *)
(* fc_copy[j, i] raises IndexError when j or i is outside the copy         *)
RECURSIVE perm_sym_loop(_, _, _)
perm_sym_loop(fc0, fc_copy0, k) ==
    The({IF k = Shape0(fc) * Shape1(fc) THEN [fc |-> fc, error |-> "none"]
         ELSE LET i == k \div Shape1(fc)
                  j == k % Shape1(fc)
              IN  IF j >= Shape0(fc_copy) \/ i >= Shape1(fc_copy)
                  THEN [fc |-> fc, error |-> "IndexError"]
                  ELSE perm_sym_loop(
                         [fc EXCEPT ![i][j] = perm_sym_block(fc, fc_copy, i, j)],
                         fc_copy, k + 1) :
         fc \in {fc0}, fc_copy \in {fc_copy0}})

set_permutation_symmetry(fc0) ==
    The({perm_sym_loop(fc, fc, 0) : fc \in {fc0}})

permutation_step == [pass |-> "set_permutation_symmetry", index |-> -1]

(* for i in range(level): translational invariance, permutation symmetry; *)
(* trace lists the passes entered, in order                                *)
RECURSIVE symmetrize_loop(_, _)
symmetrize_loop(fc, n) ==
    IF n <= 0 THEN [fc |-> fc, error |-> "none", trace |-> << >>]
    ELSE The({IF p.error # "none"
              THEN [fc |-> p.fc, error |-> p.error,
                    trace |-> translational_steps \o <<permutation_step>>]
              ELSE The({[fc |-> r.fc, error |-> r.error,
                         trace |-> translational_steps \o <<permutation_step>>
                                       \o r.trace] :
                        r \in {symmetrize_loop(p.fc, n - 1)}}) :
              p \in {set_permutation_symmetry(
                         set_translational_invariance(fc))}})

(* variant: the loop is followed by the pass over index 0 only *)
symmetrize_force_constants_row_pass(fc, lev) ==
    The({IF r.error # "none" THEN r
         ELSE [fc |-> set_translational_invariance_per_index(r.fc, 0),
               error |-> "none",
               trace |-> r.trace \o <<translational_steps[1]>>] :
         r \in {symmetrize_loop(fc, lev)}})

(* symmetrize_force_constants, the branch taken on ImportError *)
symmetrize_force_constants(fc, lev) ==
    The({IF r.error # "none" THEN r
         ELSE [fc |-> set_translational_invariance(r.fc), error |-> "none",
               trace |-> r.trace \o translational_steps] :
         r \in {symmetrize_loop(fc, lev)}})

(* symmetrize_compact_force_constants, the branch taken on ImportError:    *)
(* the handler raises RuntimeError, the tensor is not touched              *)
symmetrize_compact_force_constants(fc, prim, lev) ==
    [fc |-> fc, error |-> "RuntimeError"]

-----------------------------------------------------------------------------
(* show_drift_force_constants *)

RAbs(p) == The({<<Abs(x[1]), x[2]>> : x \in {p}})
RLess(p, q) == The({x[1] * y[2] < y[1] * x[2] : x \in {p}, y \in {q}})

(* "%f" prints FloatDigits digits after the point *)
FloatDigits == 6

(* "%f" % q: the nearest decimal of FloatDigits digits (ties to even), as  *)
(* its count of units of 10^-FloatDigits                                   *)
format_f(q) ==
    The({IF 2 * (n % q[2]) > q[2] THEN (n \div q[2]) + 1
         ELSE IF 2 * (n % q[2]) < q[2] THEN n \div q[2]
         ELSE IF (n \div q[2]) % 2 = 0 THEN n \div q[2]
         ELSE (n \div q[2]) + 1 :
         n \in {q[1] * (10 ^ FloatDigits)}})

(* "xyz"[j] *)
xyz(j) == <<"x", "y", "z">>[j + 1]

(* the loop over np.ndindex((num_atom, 3, 3)) from flat position t on *)
RECURSIVE drift_loop(_, _, _)
drift_loop(fc, t, max0) ==
    IF t = Shape0(fc) * Dim * Dim THEN max0
    ELSE The({drift_loop(fc, t + 1,
                 [maxval1 |-> IF RLess(RAbs(m.maxval1), RAbs(val1))
                              THEN val1 ELSE m.maxval1,
                  jk1 |-> IF RLess(RAbs(m.maxval1), RAbs(val1))
                          THEN <<j, k>> ELSE m.jk1,
                  maxval2 |-> IF RLess(RAbs(m.maxval2), RAbs(val2))
                              THEN val2 ELSE m.maxval2,
                  jk2 |-> IF RLess(RAbs(m.maxval2), RAbs(val2))
                          THEN <<j, k>> ELSE m.jk2]) :
              <<m, j, k, val1, val2>> \in
                  {<<max0, (t \div Dim) % Dim, t % Dim,
                     SumOverFirst(fc, t \div (Dim * Dim), (t \div Dim) % Dim,
                                  t % Dim),
                     SumOverSecond(fc, t \div (Dim * Dim), (t \div Dim) % Dim,
                                   t % Dim)>>}})

(* the text handed to print *)
drift_text(name, values_only, m) ==
    [prefix |-> IF values_only THEN "" ELSE <<"Max drift of ", name, ": ">>,
     values |-> <<format_f(m.maxval1), xyz(m.jk1[1]), xyz(m.jk1[2]),
                  format_f(m.maxval2), xyz(m.jk2[1]), xyz(m.jk2[2])>>]

(* variant: the drift found is also subtracted from the tensor *)
show_drift_force_constants_subtracting(fc, prim, name, values_only) ==
    IF IsSquare(fc)
    THEN [fc |-> set_translational_invariance(fc), error |-> "none",
          text |-> The({drift_text(name, values_only, m) :
                        m \in {drift_loop(fc, 0,
                                 [maxval1 |-> RZero, jk1 |-> <<0, 0>>,
                                  maxval2 |-> RZero, jk2 |-> <<0, 0>>])}})]
    ELSE [fc |-> fc, error |-> "AttributeError", text |-> None]

(* show_drift_force_constants; on a compact tensor, the branch taken on    *)
(* ImportError, or the failure to read the maps of a primitive that was    *)
(* not given                                                               *)
show_drift_force_constants(fc, prim, name, values_only) ==
    IF IsSquare(fc)
    THEN [fc |-> fc, error |-> "none",
          text |-> The({drift_text(name, values_only, m) :
                        m \in {drift_loop(fc, 0,
                                 [maxval1 |-> RZero, jk1 |-> <<0, 0>>,
                                  maxval2 |-> RZero, jk2 |-> <<0, 0>>])}})]
    ELSE IF prim.p2s_map = None
    THEN [fc |-> fc, error |-> "AttributeError", text |-> None]
    ELSE [fc |-> fc, error |-> "RuntimeError", text |-> None]

-----------------------------------------------------------------------------
(* distribute_force_constants *)

(* a Python list (sequence) as a 0-based array *)
ArrayOf(list) == Array([i \in 0 .. (Len(list) - 1) |-> list[i + 1]])

(* np.where(array == x)[0][0]: first position of x, -1 when absent *)
RECURSIVE first_position(_, _, _)
first_position(array, x, i) ==
    IF i \notin DOMAIN array THEN -1
    ELSE IF array[i] = x THEN i
    ELSE first_position(array, x, i + 1)

(* variant: the rotations are used as given, in fractional coordinates *)
rots_cartesian_fractional(lattice0, rotations0) ==
    The({Array([s \in DOMAIN rotations |-> rotations[s]]) :
         rotations \in {rotations0}})

(* rots_cartesian: similarity_transformation(lattice, r) for r in rotations *)
rots_cartesian(lattice0, rotations0) ==
    The({Array([s \in DOMAIN rotations |->
                   similarity_transformation(lattice, rotations[s])]) :
         lattice \in {lattice0}, rotations \in {rotations0}})

(* variant: the rows of the tensor, not its columns, are counted *)
distribute_targets_rows(fc, atoms) ==
    IF atoms = None THEN Array([i \in 0 .. (Shape0(fc) - 1) |-> i])
    ELSE ArrayOf(atoms)

(* targets: np.arange(force_constants.shape[1]) or np.array(atom_list) *)
distribute_targets(fc, atoms) ==
    IF atoms = None THEN Array([i \in 0 .. (Shape1(fc) - 1) |-> i])
    ELSE ArrayOf(atoms)

(* phonoc.distribute_fc2, the native routine: row i of the tensor belongs  *)
(* to atom targets[i]; every target row is written, from the rows as they  *)
(* were before the call:                                                   *)
(*   Phi[atom, j] = R . Phi[done_atom, perm(j)] . R^-1                     *)
distribute_fc2(fc0, targets0, r_carts0, perms, m_atoms, m_syms) ==
    The({Array([i \in DOMAIN fc |->
            IF i \notin DOMAIN targets THEN fc[i]
            ELSE LET atom == targets[i]
                     s == m_syms[atom]
                     src == first_position(targets, m_atoms[atom], 0)
                 IN  The({Array([j \in DOMAIN fc[i] |->
                             MatMul(r_carts[s],
                                    MatMul(fc[src][perms.at[s][j]], r_inv))]) :
                          r_inv \in {MatInv(r_carts[s])}})]) :
         fc \in {fc0}, targets \in {targets0}, r_carts \in {r_carts0}})

distribute_force_constants(fc0, done_list, lattice, rotations, perms, atoms, native) ==
    The({IF m.error # "none" THEN [fc |-> fc, error |-> m.error]
         ELSE IF MatDet(lattice) = RZero /\ DOMAIN rotations # {}
         THEN [fc |-> fc, error |-> "LinAlgError"]
         ELSE IF ~native THEN [fc |-> fc, error |-> "ImportError"]
         ELSE [fc |-> distribute_fc2(fc, distribute_targets(fc, atoms),
                                     rots_cartesian(lattice, rotations), perms,
                                     m.map_atoms, m.map_syms),
               error |-> "none"] :
         fc \in {fc0},
         m \in {_get_sym_mappings_from_permutations(perms, done_list)}})

-----------------------------------------------------------------------------
(* set_tensor_symmetry *)

(* diff -= np.rint(diff); norm(np.dot(diff, lattice.T)) < symprec.  Atoms  *)
(* sit exactly on their sites here, so two positions are within symprec    *)
(* exactly when they differ by a lattice translation.                      *)
within_symprec(diff) == \A a \in Axes : diff[a][2] = 1

(* index_array[mr]: the k2 of every True of the mask m[n], row by row *)
RECURSIVE mapa_extract(_, _, _, _)
mapa_extract(positions, rot, trans, p) ==
    LET K == Cardinality(DOMAIN positions)
    IN  IF p = K * K THEN << >>
        ELSE LET k1 == p \div K
                 k2 == p % K
                 rpos == VecAdd(MatVec(rot, positions[k1]), trans)
             IN  The({IF within_symprec(VecSub(positions[k2], rpos))
                      THEN <<k2>> \o rest ELSE rest :
                      rest \in {mapa_extract(positions, rot, trans, p + 1)}})

_get_atom_indices_by_symmetry(lattice, positions, rotations, translations) ==
    Array([n \in DOMAIN rotations |->
              ArrayOf(mapa_extract(positions, rotations[n], translations[n], 0))])

(* variant: the first operation that sends i onto itself *)
RECURSIVE first_rotation_fixing(_, _, _, _)
first_rotation_fixing(mapa, j, i, r) ==
    IF r \notin DOMAIN mapa THEN -1
    ELSE IF mapa[r][i] = i THEN r
    ELSE first_rotation_fixing(mapa, j, i, r + 1)

(* (mapa[:, j] == i).nonzero()[0][0]; -1 stands for the IndexError *)
RECURSIVE first_rotation_onto(_, _, _, _)
first_rotation_onto(mapa, j, i, r) ==
    IF r \notin DOMAIN mapa THEN -1
    ELSE IF mapa[r][j] = i THEN r
    ELSE first_rotation_onto(mapa, j, i, r + 1)

(* for k, l in enumerate(mapa[r_i]): fc_combined[l] += ... fc[j, k] *)
RECURSIVE combine_row(_, _, _, _, _, _)
combine_row(fc_combined0, fc, j, rot_cart, mapa_r, k) ==
    The({IF k \notin DOMAIN mapa_r THEN fc_combined
         ELSE combine_row(
                [fc_combined EXCEPT ![mapa_r[k]] =
                    MatAdd(@, similarity_transformation(rot_cart, fc[j][k]))],
                fc, j, rot_cart, mapa_r, k + 1) :
         fc_combined \in {fc_combined0}})

(* the loop over enumerate(map_atoms) from atom j on *)
RECURSIVE combine_loop(_, _, _, _, _, _, _)
combine_loop(acc0, fc, i, cart_rot, m_atoms, mapa, j) ==
    The({IF j \notin DOMAIN m_atoms THEN acc
         ELSE IF m_atoms[j] # i
         THEN combine_loop(acc, fc, i, cart_rot, m_atoms, mapa, j + 1)
         ELSE LET r_i == first_rotation_onto(mapa, j, i, 0)
              IN  IF r_i = -1 THEN [acc EXCEPT !.error = "IndexError"]
                  ELSE combine_loop(
                         [acc EXCEPT !.num = @ + 1,
                                     !.fc = combine_row(@, fc, j, cart_rot[r_i],
                                                        mapa[r_i], 0)],
                         fc, i, cart_rot, m_atoms, mapa, j + 1) :
         acc \in {acc0}})

(* a division by a zero count leaves nan behind and raises nothing; the    *)
(* count is returned and the caller's assertion then fails                 *)
_combine_force_constants_equivalent_atoms(fc, i, cart_rot, m_atoms, mapa) ==
    LET zeros == Array([l \in DOMAIN fc[0] |-> MatZero])
    IN  The({IF r.error # "none" \/ r.num = 0 THEN r
             ELSE [r EXCEPT !.fc = Array([l \in DOMAIN r.fc |->
                                     MatScale(r.fc[l], <<1, r.num>>)])] :
             r \in {combine_loop([fc |-> zeros, num |-> 0, error |-> "none"],
                                 fc, i, cart_rot, m_atoms, mapa, 0)}})

(* the loop over enumerate(mapa) from operation r_i on, on row i of fc_new *)
RECURSIVE average_loop(_, _, _, _, _, _)
average_loop(acc0, fc_i, i, cart_rot, mapa, r_i) ==
    The({IF r_i \notin DOMAIN mapa THEN acc
         ELSE IF mapa[r_i][i] # i
         THEN average_loop(acc, fc_i, i, cart_rot, mapa, r_i + 1)
         ELSE average_loop(
                [num |-> acc.num + 1,
                 row |-> Array([j \in DOMAIN fc_i |->
                            MatAdd(acc.row[j],
                                   similarity_transformation(
                                       MatT(cart_rot[r_i]),
                                       fc_i[mapa[r_i][j]]))])],
                fc_i, i, cart_rot, mapa, r_i + 1) :
         acc \in {acc0}})

_average_force_constants_by_sitesym(row_i, fc_i0, i, cart_rot, mapa) ==
    The({IF r.num = 0 THEN r
         ELSE [r EXCEPT !.row = Array([j \in DOMAIN r.row |->
                                  MatScale(r.row[j], <<1, r.num>>)])] :
         r \in {average_loop([num |-> 0, row |-> row_i], fc_i, i, cart_rot,
                             mapa, 0) : fc_i \in {fc_i0}}})

(* the loop over indep_atoms from list position p on *)
RECURSIVE tensor_symmetry_loop(_, _, _, _, _, _, _)
tensor_symmetry_loop(acc0, fc, indep_atoms, cart_rot, m_atoms, mapa, p) ==
    IF p > Len(indep_atoms) THEN acc0
    ELSE The({IF c.error # "none" THEN [acc EXCEPT !.error = c.error]
              ELSE The({IF c.num * a.num # Cardinality(DOMAIN cart_rot)
                        THEN [acc EXCEPT !.error = "AssertionError"]
                        ELSE tensor_symmetry_loop(
                               [acc EXCEPT !.fc[indep_atoms[p]] = a.row], fc,
                               indep_atoms, cart_rot, m_atoms, mapa, p + 1) :
                        a \in {_average_force_constants_by_sitesym(
                                  acc.fc[indep_atoms[p]], c.fc, indep_atoms[p],
                                  cart_rot, mapa)}}) :
              acc \in {acc0},
              c \in {_combine_force_constants_equivalent_atoms(
                        fc, indep_atoms[p], cart_rot, m_atoms, mapa)}})

(* fc_new = np.zeros_like(force_constants) *)
zeros_like(fc) ==
    Array([i \in DOMAIN fc |-> Array([j \in DOMAIN fc[i] |-> MatZero])])

(* variant: the caller's tensor is overwritten before the distribution *)
set_tensor_symmetry_write_first(fc, lattice, positions, rotations, translations, m_atoms, indep_atoms, perms, native) ==
    The({IF r.error # "none" THEN [fc |-> fc, error |-> r.error]
         ELSE distribute_force_constants(r.fc, indep_atoms, lattice, rotations,
                                         perms, None, native) :
         r \in {tensor_symmetry_loop(
                   [fc |-> zeros_like(fc), error |-> "none"], fc, indep_atoms,
                   rots_cartesian(lattice, rotations), m_atoms,
                   _get_atom_indices_by_symmetry(lattice, positions, rotations,
                                                 translations), 1)}})

set_tensor_symmetry(fc, lattice, positions, rotations, translations, m_atoms, indep_atoms, perms, native) ==
    The({IF r.error # "none" THEN [fc |-> fc, error |-> r.error]
         ELSE The({IF d.error # "none" THEN [fc |-> fc, error |-> d.error]
                   ELSE [fc |-> d.fc, error |-> "none"] :
                   d \in {distribute_force_constants(
                             r.fc, indep_atoms, lattice, rotations, perms,
                             None, native)}}) :
         r \in {tensor_symmetry_loop(
                   [fc |-> zeros_like(fc), error |-> "none"], fc, indep_atoms,
                   rots_cartesian(lattice, rotations), m_atoms,
                   _get_atom_indices_by_symmetry(lattice, positions, rotations,
                                                 translations), 1)}})

-----------------------------------------------------------------------------
(* compact_fc_to_full_fc and get_fc2 *)

(* a 0-based array as a Python list (sequence) *)
ListOf(array) == [k \in 1 .. Cardinality(DOMAIN array) |-> array[k - 1]]

(* np.zeros((rows, cols, 3, 3)) *)
zeros(rows, cols) ==
    Array([i \in Atoms(rows) |-> Array([j \in Atoms(cols) |-> MatZero])])

(* variant: compact row k is stored in row k of the full tensor *)
RECURSIVE seed_rows_by_index(_, _, _, _)
seed_rows_by_index(fc, p2s_map, compact_fc, k) ==
    IF k \notin DOMAIN p2s_map THEN fc
    ELSE seed_rows_by_index([fc EXCEPT ![k] = compact_fc[k]],
                            p2s_map, compact_fc, k + 1)

(* fc[p2s_map] = compact_fc: row p2s_map[k] takes compact row k, from k on *)
RECURSIVE seed_rows(_, _, _, _)
seed_rows(fc, p2s_map, compact_fc, k) ==
    IF k \notin DOMAIN p2s_map THEN fc
    ELSE seed_rows([fc EXCEPT ![p2s_map[k]] = compact_fc[k]],
                   p2s_map, compact_fc, k + 1)

(* trans has one entry per atom s with s2p[s] = p2s[0]; rotations is the   *)
(* identity once per entry of trans                                        *)
distribute_force_constants_by_translations(fc, prim, lattice, native) ==
    LET trans == {s \in DOMAIN prim.s2p_map :
                     prim.s2p_map[s] = prim.p2s_map[0]}
        rotations == [i \in Atoms(Cardinality(trans)) |-> MatEye]
    IN  distribute_force_constants(fc, ListOf(prim.p2s_map), lattice,
                                   rotations, prim.permutations, None, native)

compact_fc_to_full_fc(compact_fc, prim, lattice, native) ==
    distribute_force_constants_by_translations(
        seed_rows(zeros(Shape1(compact_fc), Shape1(compact_fc)),
                  prim.p2s_map, compact_fc, 0),
        prim, lattice, native)

(* _solve_force_constants_svd: the pseudo-inverse solution for one         *)
(* displaced atom, a row of one block per supercell atom.  It is computed  *)
(* from the displaced atom, its displacements and forces, the supercell    *)
(* and the site symmetry, never from atom_list; the dataset carries it.    *)
_solve_force_constants_svd(data, disp_atom_number) ==
    data.solution[disp_atom_number]

(* variant: the row index is the atom number whatever atom_list is *)
solve_force_constants_by_number(fc, disp_atom_number, data, atoms) ==
    [fc |-> [fc EXCEPT ![disp_atom_number] =
                 _solve_force_constants_svd(data, disp_atom_number)],
     error |-> "none", solved |-> TRUE]

(* np.where(array == x)[0][-1]: last position of x, -1 when absent *)
RECURSIVE last_position(_, _, _)
last_position(array, x, i) ==
    IF i \notin DOMAIN array THEN -1
    ELSE The({IF later # -1 THEN later ELSE IF array[i] = x THEN i ELSE -1 :
              later \in {last_position(array, x, i + 1)}})

(* variant: the row is the one at the last position of the atom in         *)
(* atom_list                                                               *)
solve_force_constants_last_position(fc, disp_atom_number, data, atoms) ==
    LET fc_index == IF atoms = None THEN disp_atom_number
                    ELSE last_position(ArrayOf(atoms), disp_atom_number, 0)
    IN  IF fc_index = -1
        THEN [fc |-> fc, error |-> "RuntimeError", solved |-> FALSE]
        ELSE [fc |-> [fc EXCEPT ![fc_index] =
                         _solve_force_constants_svd(data, disp_atom_number)],
              error |-> "none", solved |-> TRUE]

(* variant: the row is solved before the atom is looked up in atom_list *)
solve_force_constants_solving_first(fc, disp_atom_number, data, atoms) ==
    LET fc_index == IF atoms = None THEN disp_atom_number
                    ELSE first_position(ArrayOf(atoms), disp_atom_number, 0)
    IN  IF fc_index = -1
        THEN [fc |-> fc, error |-> "RuntimeError", solved |-> TRUE]
        ELSE [fc |-> [fc EXCEPT ![fc_index] =
                         _solve_force_constants_svd(data, disp_atom_number)],
              error |-> "none", solved |-> TRUE]

(* solved tells whether _solve_force_constants_svd was called *)
solve_force_constants(fc, disp_atom_number, data, atoms) ==
    LET fc_index == IF atoms = None THEN disp_atom_number
                    ELSE first_position(ArrayOf(atoms), disp_atom_number, 0)
    IN  IF fc_index = -1
        THEN [fc |-> fc, error |-> "RuntimeError", solved |-> FALSE]
        ELSE [fc |-> [fc EXCEPT ![fc_index] =
                         _solve_force_constants_svd(data, disp_atom_number)],
              error |-> "none", solved |-> TRUE]

(* the loop over disp_atom_list from list position p on *)
RECURSIVE disps_loop(_, _, _, _, _)
disps_loop(acc, disp_atom_list, data, atoms, p) ==
    IF p > Len(disp_atom_list) THEN acc
    ELSE The({IF r.error # "none" THEN r
              ELSE disps_loop(r, disp_atom_list, data, atoms, p + 1) :
              r \in {solve_force_constants(acc.fc, disp_atom_list[p], data,
                                           atoms)}})
(* disp_atom_list = np.unique(numbers): the displaced atoms, ascending *)
_get_force_constants_disps(fc, data, atoms) ==
    The({[fc |-> r.fc, error |-> r.error, disp_atom_list |-> disp_atom_list] :
         <<disp_atom_list, r>> \in
             {<<u, disps_loop([fc |-> fc, error |-> "none"], u, data, atoms, 1)>> :
              u \in {SortedList(Range(data.numbers))}}})

(* get_fc2 with decimals=None *)
get_fc2(n_satom, data, atoms, lattice, rotations, perms, native) ==
    The({IF d.error # "none" THEN [fc |-> d.fc, error |-> d.error]
         ELSE distribute_force_constants(d.fc, d.disp_atom_list, lattice,
                                         rotations, perms, atoms, native) :
         d \in {_get_force_constants_disps(
                   zeros(IF atoms = None THEN n_satom ELSE Len(atoms), n_satom),
                   data, atoms)}})

-----------------------------------------------------------------------------
(* _solve_force_constants_svd: the stacked system and its solution *)

(* np.dot(v, m): a row vector times a matrix *)
VecMat(v, M) ==
    The({VecOf(LAMBDA b : RSum([a \in Axes |-> RMul(x[a], Y[a][b])], Dim)) :
         x \in {v}, Y \in {M}})

(* np.reshape(lists, (-1, 3)): the rows of the lists, one list after the   *)
(* other                                                                   *)
RECURSIVE reshape_rows(_)
reshape_rows(lists) ==
    IF lists = << >> THEN << >>
    ELSE Head(lists) \o reshape_rows(Tail(lists))

(* compute_permutation_for_rotation of phonopy.structure.cells: rot_map    *)
(* with rotated_positions[rot_map] == positions up to lattice translations *)
compute_permutation_for_rotation(rotated_positions, positions) ==
    Array([i \in DOMAIN positions |->
        CHOOSE k \in DOMAIN rotated_positions :
            within_symprec(VecSub(rotated_positions[k], positions[i]))])

get_positions_sent_by_rot_inv(positions, site_symmetry) ==
    Array([s \in DOMAIN site_symmetry |->
        compute_permutation_for_rotation(
            Array([k \in DOMAIN positions |->
                      VecMat(positions[k], MatT(site_symmetry[s]))]),
            positions)])

(* variant: the operations are the outer loop, the displacements the inner *)
get_rotated_displacement_by_sym(displacements, site_sym_cart) ==
    ArrayOf(reshape_rows(
        [s \in 1 .. Cardinality(DOMAIN site_sym_cart) |->
            [d \in 1 .. Cardinality(DOMAIN displacements) |->
                MatVec(site_sym_cart[s - 1], displacements[d - 1])]]))

(* for u in displacements: [np.dot(sym, u) for sym in site_sym_cart] *)
get_rotated_displacement(displacements, site_sym_cart) ==
    ArrayOf(reshape_rows(
        [d \in 1 .. Cardinality(DOMAIN displacements) |->
            [s \in 1 .. Cardinality(DOMAIN site_sym_cart) |->
                MatVec(site_sym_cart[s - 1], displacements[d - 1])]]))

(* for forces, sym_cart in zip(..): np.dot(forces, sym_cart.T) *)
get_rotated_forces(forces_syms, site_sym_cart) ==
    [s \in 1 .. Cardinality(DOMAIN forces_syms \cap DOMAIN site_sym_cart) |->
        VecMat(forces_syms[s - 1], MatT(site_sym_cart[s - 1]))]

(* the rows gathered for atom i: forces[rot_map_syms[:, i]] of every       *)
(* observation, rotated, then reshaped                                     *)
combined_forces(sets_of_forces, rot_map_syms, site_sym_cart, i) ==
    ArrayOf(reshape_rows(
        [d \in 1 .. Cardinality(DOMAIN sets_of_forces) |->
            get_rotated_forces(
                Array([s \in DOMAIN rot_map_syms |->
                          sets_of_forces[d - 1][rot_map_syms[s][i]]]),
                site_sym_cart)]))

(* np.dot(D.T, F) of two stacks of rows *)
stack_dot(D, F) ==
    The({MatOf(LAMBDA a, b :
            RSum([r \in DOMAIN X |-> RMul(X[r][a], Y[r][b])],
                 Cardinality(DOMAIN X))) :
         X \in {D}, Y \in {F}})

(* A on the axes of I, the unit matrix elsewhere; the columns I of A *)
principal(A, I) ==
    MatOf(LAMBDA a, b : IF a \in I /\ b \in I THEN A[a][b]
                        ELSE IF a = b THEN RInt(1) ELSE RZero)
columns(A, I) == MatOf(LAMBDA a, b : IF b \in I THEN A[a][b] ELSE RZero)

(* the pseudo-inverse of A = D.T D: with I a largest set of axes on which  *)
(* A is regular and C its columns I, C (C.T A C)^-1 C.T                    *)
pinv_gram(A0) ==
    The({MatMul(C, MatMul(MatInv(principal(MatMul(MatT(C), MatMul(A, C)), I)),
                          MatT(C))) :
         <<A, I, C>> \in
             {<<A0, J, columns(A0, J)>> :
                 J \in {CHOOSE K \in SUBSET Axes :
                          /\ MatDet(principal(A0, K)) # RZero
                          /\ \A L \in SUBSET Axes :
                                MatDet(principal(A0, L)) # RZero
                                    => Cardinality(L) <= Cardinality(K)}}})

(* np.linalg.pinv(rot_disps), applied to a stack of rows F:                *)
(* pinv(D) F = pinv(D.T D) D.T F                                           *)
pinv_dot(D, F) == MatMul(pinv_gram(stack_dot(D, D)), stack_dot(D, F))

_solve_force_constants_svd_system(disp_atom_number, displacements, sets_of_forces, lattice, scaled_positions, site_symmetry) ==
    The({[rot_map_syms |-> rot_map_syms,
          rot_disps |-> rot_disps,
          combined_forces |->
              Array([i \in DOMAIN scaled_positions |->
                  combined_forces(sets_of_forces, rot_map_syms,
                                  site_sym_cart, i)]),
          fc |-> Array([i \in DOMAIN scaled_positions |->
                    MatScale(pinv_dot(rot_disps,
                                 combined_forces(sets_of_forces, rot_map_syms,
                                                 site_sym_cart, i)),
                             RInt(-1))])] :
         <<rot_map_syms, site_sym_cart, rot_disps>> \in
             {<<m, c, get_rotated_displacement(displacements, c)>> :
                 m \in {get_positions_sent_by_rot_inv(
                           Array([k \in DOMAIN scaled_positions |->
                                     VecSub(scaled_positions[k],
                                            scaled_positions[disp_atom_number])]),
                           site_symmetry)},
                 c \in {rots_cartesian(lattice, site_symmetry)}}})

-----------------------------------------------------------------------------
(* cutoff_force_constants *)

(* get_smallest_vectors of phonopy.structure.cells followed by the norm of *)
(* the first shortest vector: the distance of two points of a periodic     *)
(* line to the nearest image of each other                                 *)
get_smallest_vectors(x, y, period) ==
    The({IF d <= period - d THEN d ELSE period - d :
         d \in {Abs(x - y) % period}})

(* min_distances[j][i]: every atom j of the supercell against every atom   *)
(* of the supercell (square tensor) or against the atoms of the primitive  *)
min_distances(fc, supercell, prim) ==
    IF Shape0(fc) = Shape1(fc)
    THEN Array([j \in DOMAIN supercell.positions |->
             Array([i \in DOMAIN supercell.positions |->
                 get_smallest_vectors(supercell.positions[j],
                                      supercell.positions[i],
                                      supercell.period)])])
    ELSE Array([j \in DOMAIN supercell.positions |->
             Array([i \in DOMAIN prim.p2s_map |->
                 get_smallest_vectors(supercell.positions[j],
                                      supercell.positions[prim.p2s_map[i]],
                                      supercell.period)])])

(* the double loop over the blocks, and two variants of its comparison *)
cutoff_rows_from(fc, d, cutoff_radius) ==
    Array([i \in DOMAIN fc |-> Array([j \in DOMAIN fc[i] |->
        IF d[j][i] >= cutoff_radius THEN MatZero ELSE fc[i][j]])])
cutoff_rows_within(fc, d, cutoff_radius) ==
    Array([i \in DOMAIN fc |-> Array([j \in DOMAIN fc[i] |->
        IF d[j][i] < cutoff_radius THEN MatZero ELSE fc[i][j]])])
cutoff_rows(fc, d, cutoff_radius) ==
    Array([i \in DOMAIN fc |-> Array([j \in DOMAIN fc[i] |->
        IF d[j][i] > cutoff_radius THEN MatZero ELSE fc[i][j]])])

cutoff_force_constants(fc, supercell, prim, cutoff_radius) ==
    The({cutoff_rows(fc, d, cutoff_radius) :
         d \in {min_distances(fc, supercell, prim)}})

-----------------------------------------------------------------------------
(* get_harmonic_potential_energy: arrays carry their shape, ndim is its    *)
(* length                                                                  *)

ndim(array) == Len(array.shape)

(* np.swapaxes(force_constants, 1, 2).reshape(n * 3, n * 3) *)
swapaxes_reshape(fc, n) ==
    Array([r \in 0 .. (n * Dim - 1) |-> Array([c \in 0 .. (n * Dim - 1) |->
        fc[r \div Dim][c \div Dim][r % Dim][c % Dim]])])

(* d.ravel() of an array of atomic displacement vectors *)
ravel(d) ==
    Array([r \in 0 .. (Cardinality(DOMAIN d) * Dim - 1) |->
        d[r \div Dim][r % Dim]])

Size(v) == Cardinality(DOMAIN v)

(* np.dot of a matrix and a vector, and of two vectors *)
dot_matrix_vector(M, v) ==
    Array([r \in DOMAIN M |->
        RSum([c \in DOMAIN v |-> RMul(M[r][c], v[c])], Size(v))])
dot_vectors(u, v) == RSum([c \in DOMAIN u |-> RMul(u[c], v[c])], Size(u))

_get_harm_pot(fc, d) ==
    The({RDiv(dot_vectors(x, dot_matrix_vector(fc, x)), RInt(2)) : x \in {d}})

(* the list comprehension over the displacement sets, variant that lists  *)
(* the energies last set first                                             *)
harm_pot_list_reversed(fc, displacements) ==
    The({[k \in 1 .. n |-> _get_harm_pot(fc, ravel(displacements.at[n - k]))] :
         n \in {displacements.shape[1]}})

harm_pot_list(fc, displacements) ==
    The({[k \in 1 .. n |-> _get_harm_pot(fc, ravel(displacements.at[k - 1]))] :
         n \in {displacements.shape[1]}})

(* np.dot raises ValueError when the flattened displacements do not have   *)
(* n * 3 elements; computed counts the energies that were evaluated        *)
get_harmonic_potential_energy(fc0, displacements) ==
    IF Shape0(fc0) # Shape1(fc0)
    THEN [error |-> "RuntimeError", result |-> None, computed |-> 0]
    ELSE The({
        IF ndim(displacements) = 3
        THEN IF displacements.shape[1] > 0 /\ displacements.shape[2] # n
             THEN [error |-> "ValueError", result |-> None, computed |-> 0]
             ELSE [error |-> "none",
                   result |-> harm_pot_list(fc, displacements),
                   computed |-> displacements.shape[1]]
        ELSE IF ndim(displacements) = 2
        THEN IF displacements.shape[1] # n
             THEN [error |-> "ValueError", result |-> None, computed |-> 0]
             ELSE [error |-> "none",
                   result |-> _get_harm_pot(fc, ravel(displacements.at)),
                   computed |-> 1]
        ELSE [error |-> "RuntimeError", result |-> None, computed |-> 0] :
        n \in {Shape0(fc0)}, fc \in {swapaxes_reshape(fc0, Shape0(fc0))}})

-----------------------------------------------------------------------------
(* _get_force_constants_disps on the entries of dataset['first_atoms'] *)

(* variant: the distinct numbers in the order of their first entry *)
RECURSIVE unique_by_first_entry(_)
unique_by_first_entry(numbers) ==
    IF numbers = << >> THEN << >>
    ELSE <<Head(numbers)>>
             \o unique_by_first_entry(
                    SelectSeq(Tail(numbers), LAMBDA x : x # Head(numbers)))

(* np.unique: the distinct values, ascending *)
np_unique(numbers) == SortedList(Range(numbers))

(* the inner loop over dataset['first_atoms']: the displacements and the   *)
(* force sets of the entries of one atom, appended in dataset order        *)
entries_of_atom(first_atoms, disp_atom_number) ==
    The({[disps |-> [k \in DOMAIN kept |-> kept[k].displacement],
          sets_of_forces |-> [k \in DOMAIN kept |-> kept[k].forces]] :
         kept \in {SelectSeq(first_atoms,
                             LAMBDA x : x.number = disp_atom_number)}})

(* the loop over disp_atom_list from list position p on; calls lists the   *)
(* arguments of every solve_force_constants call made                      *)
RECURSIVE disps_entries_loop(_, _, _, _, _, _, _)
disps_entries_loop(acc, disp_atom_list, first_atoms, supercell, symmetry, atoms, p) ==
    IF p > Len(disp_atom_list) THEN acc
    ELSE The({IF r.error # "none"
              THEN [fc |-> r.fc, error |-> r.error, calls |-> calls]
              ELSE disps_entries_loop(
                       [fc |-> r.fc, error |-> "none", calls |-> calls],
                       disp_atom_list, first_atoms, supercell, symmetry,
                       atoms, p + 1) :
              <<calls, r>> \in
                  {<<Append(acc.calls,
                            [disp_atom_number |-> n, disps |-> e.disps,
                             sets_of_forces |-> e.sets_of_forces,
                             atom_list |-> atoms]),
                     solve_force_constants(acc.fc, n,
                         [solution |-> [d \in {n} |->
                             _solve_force_constants_svd_system(
                                 n, ArrayOf(e.disps), ArrayOf(e.sets_of_forces),
                                 supercell.lattice, supercell.scaled_positions,
                                 symmetry[n]).fc]],
                         atoms)>> :
                   n \in {disp_atom_list[p]},
                   e \in {entries_of_atom(first_atoms, disp_atom_list[p])}}})

_get_force_constants_disps_of_entries(fc, supercell, first_atoms, symmetry, atoms) ==
    The({[fc |-> r.fc, error |-> r.error, calls |-> r.calls,
          disp_atom_list |-> IF r.error = "none" THEN disp_atom_list ELSE None] :
         <<disp_atom_list, r>> \in
             {<<u, disps_entries_loop(
                       [fc |-> fc, error |-> "none", calls |-> << >>],
                       u, first_atoms, supercell, symmetry, atoms, 1)>> :
              u \in {np_unique([k \in DOMAIN first_atoms |->
                                   first_atoms[k].number])}}})

-----------------------------------------------------------------------------
(* ThermalProperties (phonon/thermal_properties.py): the temperatures *)

RCeil(q) == -((-q[1]) \div q[2])

(* variant: the negative temperatures are kept as they are *)
temperatures_setter_keeping(temperatures) == temperatures

(* the temperatures setter:                                                *)
(* np.extract(np.invert(t_array < 0), t_array)                             *)
temperatures_setter(temperatures) ==
    SelectSeq(temperatures, LAMBDA t : ~RLess(t, RZero))

(* np.arange(start, stop, step): ceil((stop - start) / step) values        *)
(* start + k * step                                                        *)
arange(start, stop, step) ==
    The({[k \in 1 .. (IF n > 0 THEN n ELSE 0) |->
             RAdd(start, RMul(RInt(k - 1), step))] :
         n \in {RCeil(RDiv(RSub(stop, start), step))}})

DefaultTMin == 10
DefaultTMax == 1000
DefaultTStep == 10

(* variant: a negative t_min is used as given *)
set_temperature_range_unclamped(t_min, t_max, t_step) ==
    The({arange(_t_min, RAdd(_t_max, RDiv(_t_step, RInt(2))), _t_step) :
         <<_t_min, _t_max, _t_step>> \in
             {<<lo, IF t_max = None THEN RInt(DefaultTMax)
                    ELSE IF RLess(lo, t_max) THEN t_max ELSE lo,
                IF t_step = None THEN RInt(DefaultTStep)
                ELSE IF RLess(RZero, t_step) THEN t_step
                ELSE RInt(DefaultTStep)>> :
              lo \in {IF t_min = None THEN RInt(DefaultTMin) ELSE t_min}}})

set_temperature_range(t_min, t_max, t_step) ==
    The({arange(_t_min, RAdd(_t_max, RDiv(_t_step, RInt(2))), _t_step) :
         <<_t_min, _t_max, _t_step>> \in
             {<<lo, IF t_max = None THEN RInt(DefaultTMax)
                    ELSE IF RLess(lo, t_max) THEN t_max ELSE lo,
                IF t_step = None THEN RInt(DefaultTStep)
                ELSE IF RLess(RZero, t_step) THEN t_step
                ELSE RInt(DefaultTStep)>> :
              lo \in {IF t_min = None THEN RInt(DefaultTMin)
                      ELSE IF RLess(t_min, RZero) THEN RZero ELSE t_min}}})

-----------------------------------------------------------------------------
(* ThermalPropertiesBase: the mode sums.  mode_F, mode_cv and mode_S are   *)
(* transcendental in temp and freqs; a value is a rational constant plus a *)
(* list of terms coef * func(temp, freq) that are kept unevaluated.        *)

Value(const, sym) == [const |-> const, sym |-> sym]
ValueZero == Value(RZero, << >>)
ValueAdd(x, y) == Value(RAdd(x.const, y.const), x.sym \o y.sym)
ValueScale(x, q) ==
    Value(RMul(x.const, q),
          [k \in DOMAIN x.sym |-> [x.sym[k] EXCEPT !.coef = RMul(@, q)]])

(* np.sum of a list of values, np.dot of a list of rationals and one of    *)
(* values                                                                  *)
RECURSIVE np_sum(_)
np_sum(values) ==
    IF values = << >> THEN ValueZero
    ELSE ValueAdd(Head(values), np_sum(Tail(values)))
np_dot(row, values) ==
    np_sum([k \in DOMAIN values |-> ValueScale(values[k], row[k])])

Unevaluated(func, temp, freqs) ==
    [k \in DOMAIN freqs |->
        Value(RZero, <<[coef |-> RInt(1), func |-> func, temp |-> temp,
                        freq |-> freqs[k]]>>)]

mode_cv(temp, freqs) == Unevaluated("mode_cv", temp, freqs)
mode_F(temp, freqs) == Unevaluated("mode_F", temp, freqs)
mode_S(temp, freqs) == Unevaluated("mode_S", temp, freqs)
mode_ZPE(temp, freqs) ==
    [k \in DOMAIN freqs |-> Value(RDiv(freqs[k], RInt(2)), << >>)]
mode_zero(temp, freqs) == [k \in DOMAIN freqs |-> ValueZero]

mode(func, temp, freqs) ==
    CASE func = "mode_cv" -> mode_cv(temp, freqs)
      [] func = "mode_F" -> mode_F(temp, freqs)
      [] func = "mode_S" -> mode_S(temp, freqs)
      [] func = "mode_ZPE" -> mode_ZPE(temp, freqs)
      [] func = "mode_zero" -> mode_zero(temp, freqs)

(* variant: cond = freqs >= self._cutoff_frequency *)
cond_from_cutoff(freqs, cutoff_frequency) ==
    SelectSeq(SortedList(DOMAIN freqs),
              LAMBDA b : ~RLess(freqs[b], cutoff_frequency))

(* cond = freqs > self._cutoff_frequency: the selected band indices *)
cond(freqs, cutoff_frequency) ==
    SelectSeq(SortedList(DOMAIN freqs),
              LAMBDA b : RLess(cutoff_frequency, freqs[b]))

(* the contribution of one q-point: np.sum(func(t, freqs[cond])) * w, or   *)
(* np.dot(eigvecs2[:, cond], func(t, freqs[cond])) * w                     *)
qpoint_property(self, func, t, q) ==
    The({IF ~self.is_projection
         THEN ValueScale(np_sum(values), RInt(self.weights[q]))
         ELSE [i \in DOMAIN self.eigenvectors[q] |->
                  ValueScale(
                      np_dot([k \in DOMAIN c |->
                                 RMul(self.eigenvectors[q][i][c[k]],
                                      self.eigenvectors[q][i][c[k]])],
                             values),
                      RInt(self.weights[q]))] :
         <<c, values>> \in
             {<<x, mode(func, t, [k \in DOMAIN x |-> self.frequencies[q][x[k]]])>> :
              x \in {cond(self.frequencies[q], self.cutoff_frequency)}}})

(* the loop over the q-points from q on; calls lists the evaluations of    *)
(* func                                                                    *)
RECURSIVE thermal_property_loop(_, _, _, _, _)
thermal_property_loop(self, func, t, q, acc) ==
    IF q \notin DOMAIN self.frequencies THEN acc
    ELSE thermal_property_loop(self, func, t, q + 1,
             The({[t_property |->
                      IF ~self.is_projection THEN ValueAdd(acc.t_property, p)
                      ELSE [i \in DOMAIN p |-> ValueAdd(acc.t_property[i], p[i])],
                   calls |-> Append(acc.calls, [func |-> func, temp |-> t])] :
                  p \in {qpoint_property(self, func, t, q)}}))

_calculate_thermal_property(self, func, t) ==
    thermal_property_loop(self, func, t, 0,
        [t_property |->
            IF ~self.is_projection THEN ValueZero
            ELSE [i \in DOMAIN self.frequencies[0] |-> ValueZero],
         calls |-> << >>])

(* t_property / np.sum(self._weights) * EvTokJmol; the unit factor is kept *)
(* as a name                                                               *)
per_weight(self, r) ==
    The({[value |-> IF ~self.is_projection THEN ValueScale(r.t_property, s)
                    ELSE [i \in DOMAIN r.t_property |->
                             ValueScale(r.t_property[i], s)],
          unit |-> "EvTokJmol", calls |-> r.calls] :
         s \in {RDiv(RInt(1),
                     RInt(RSum([q \in DOMAIN self.weights |->
                                   RInt(self.weights[q])],
                               Cardinality(DOMAIN self.weights))[1]))}})

run_free_energy(self, t) ==
    IF RLess(RZero, t)
    THEN per_weight(self, _calculate_thermal_property(self, "mode_F", t))
    ELSE per_weight(self, _calculate_thermal_property(self, "mode_ZPE", None))

run_heat_capacity(self, t) ==
    IF RLess(RZero, t)
    THEN per_weight(self, _calculate_thermal_property(self, "mode_cv", t))
    ELSE per_weight(self, _calculate_thermal_property(self, "mode_zero", None))

run_entropy(self, t) ==
    IF RLess(RZero, t)
    THEN per_weight(self, _calculate_thermal_property(self, "mode_S", t))
    ELSE per_weight(self, _calculate_thermal_property(self, "mode_zero", None))

-----------------------------------------------------------------------------
(* Inputs *)

TensorOf(rows, cols, f(_, _, _, _)) ==
    Array([i \in Atoms(rows) |-> Array([j \in Atoms(cols) |->
        MatOf(LAMBDA a, b : f(i, j, a, b))])])

(* one element 1, all others 0 *)
UnitTensors(rows, cols) ==
    {TensorOf(rows, cols,
        LAMBDA i, j, a, b : IF <<i, j, a, b>> = e THEN RInt(1) ELSE RZero) :
     e \in Atoms(rows) \X Atoms(cols) \X Axes \X Axes}

(* every element nonzero-or-not by an irregular pattern, values -3 .. 3 *)
DenseTensor(rows, cols, seed) ==
    TensorOf(rows, cols, LAMBDA i, j, a, b :
        LET x == 27 * i + 9 * j + 3 * a + b + seed
        IN  RInt(((x * x + 3 * x * seed + i * b + 2 * j * a) % 7) - 3))

(* every element a different integer *)
IndexTensor(rows, cols) ==
    TensorOf(rows, cols, LAMBDA i, j, a, b :
        RInt(((i * cols + j) * Dim + a) * Dim + b + 1))

Tensors(rows, cols) ==
    UnitTensors(rows, cols)
    \cup {DenseTensor(rows, cols, seed) : seed \in 1 .. MaxSeed}

(* atomic permutations of n atoms on a ring: the shifts and the            *)
(* reflections (for n <= 3 these are all the permutations of the atoms)    *)
AtomPerms(n) ==
    {[a \in Atoms(n) |-> (a + k) % n] : k \in Atoms(n)}
    \cup {[a \in Atoms(n) |-> (k + n - a) % n] : k \in Atoms(n)}

PermArraysOf(n, m) ==
    {[num_rot |-> m, num_pos |-> n, at |-> at] :
        at \in [0 .. (m - 1) -> AtomPerms(n)]}
PermArrays(n) == UNION {PermArraysOf(n, m) : m \in 0 .. MaxRot}

(* lists of atoms, in any order and with repetitions *)
AtomLists(n, len) == UNION {[1 .. k -> Atoms(n)] : k \in 0 .. len}

NoGeometry == [lattice |-> None, rotations |-> None]
NoCrystal == [kind |-> "none", positions |-> None, translations |-> None,
              map_atoms |-> None]
NoPrimitive == [p2s_map |-> None, s2p_map |-> None, permutations |-> None]

-----------------------------------------------------------------------------
(* Symmetry mapping on its own: any permutation array, any done list *)

InitMap ==
    /\ call = "none"
    /\ error = "none"
    /\ \E n \in 1 .. MaxAtoms :
          /\ permutations \in PermArrays(n)
          /\ atom_list_done \in AtomLists(n, MaxDone)
    /\ map_atoms = None
    /\ map_syms = None
    /\ force_constants = None
    /\ fc_in = None
    /\ geometry = NoGeometry
    /\ atom_list = None
    /\ primitive = NoPrimitive
    /\ dataset = None
    /\ level = -1
    /\ per_index = -1
    /\ crystal = NoCrystal
    /\ phonoc = FALSE
    /\ thermal = None
    /\ args = None
    /\ trace = << >>
    /\ result = None

GetSymMappings ==
    /\ call = "none"
    /\ \E r \in {_get_sym_mappings_from_permutations(permutations,
                                                     atom_list_done)} :
           /\ error' = r.error
           /\ map_atoms' = IF r.error = "none" THEN r.map_atoms ELSE None
           /\ map_syms' = IF r.error = "none" THEN r.map_syms ELSE None
    /\ call' = "_get_sym_mappings_from_permutations"
    /\ UNCHANGED <<permutations, atom_list_done, force_constants, fc_in,
                   geometry, atom_list, primitive, dataset, level, per_index,
                   crystal, phonoc, args, trace, result, thermal>>

NextMap == GetSymMappings

SpecMap == InitMap /\ [][NextMap]_vars

(* lattices (column vectors) and rotations (fractional coordinates) *)
Cubic == MatInt(<<<<1, 0, 0>>, <<0, 1, 0>>, <<0, 0, 1>>>>)
Skew == MatInt(<<<<1, 1, 0>>, <<0, 2, 0>>, <<0, 0, 1>>>>)

RotIdentity == MatInt(<<<<1, 0, 0>>, <<0, 1, 0>>, <<0, 0, 1>>>>)
RotFourfold == MatInt(<<<<0, -1, 0>>, <<1, 0, 0>>, <<0, 0, 1>>>>)

-----------------------------------------------------------------------------
(* Distribution of known rows over the tensor: any operation list (each a  *)
(* rotation with a permutation), any done list, the full tensor            *)
(* (atom_list None) or the compact one whose atom_list holds the done      *)
(* atoms, with and without the native module.                              *)

(* an operation list: for each operation a permutation of the ring of     *)
(* atoms and a rotation, the shifts taking the two rotations in turn and   *)
(* the reflection through atom 0                                           *)
Operations(n) ==
    {[perm |-> [a \in Atoms(n) |-> (a + k) % n],
      rot |-> IF k % 2 = 0 THEN RotIdentity ELSE RotFourfold] : k \in Atoms(n)}
    \cup {[perm |-> [a \in Atoms(n) |-> (n - a) % n], rot |-> RotFourfold]}

OperationLists(n) ==
    UNION {[0 .. (m - 1) -> Operations(n)] : m \in 0 .. MaxRot}

InitDist ==
    /\ call = "none"
    /\ error = "none"
    /\ \E n \in 1 .. MaxAtoms :
          /\ \E ops \in OperationLists(n) :
                /\ permutations =
                      [num_rot |-> Cardinality(DOMAIN ops), num_pos |-> n,
                       at |-> [s \in DOMAIN ops |-> ops[s].perm]]
                /\ geometry = [lattice |-> Skew,
                               rotations |-> [s \in DOMAIN ops |-> ops[s].rot]]
          /\ \E D \in SUBSET Atoms(n) :
                /\ atom_list_done = SortedList(D)
                /\ atom_list \in {None, SortedList(D \cup {n - 1})}
          /\ force_constants =
                IndexTensor(IF atom_list = None THEN n ELSE Len(atom_list), n)
    /\ phonoc \in BOOLEAN
    /\ thermal = None
    /\ args = None
    /\ trace = << >>
    /\ fc_in = None
    /\ map_atoms = None
    /\ map_syms = None
    /\ primitive = NoPrimitive
    /\ dataset = None
    /\ level = -1
    /\ per_index = -1
    /\ crystal = NoCrystal
    /\ result = None

(* A chain of n atoms at (k/n, 0, 0) with operations that map the chain   *)
(* onto itself: translations along the chain, alone or after the mirror   *)
(* x -> -x, and the mirror y -> -y that fixes every atom.  The symmetry   *)
(* object supplies the permutations and map_atoms these operations        *)
(* induce, and the independent atoms either in full or with the last one  *)
(* missing (a symmetry that does not match the structure).                *)
MirrorX == MatInt(<<<<-1, 0, 0>>, <<0, 1, 0>>, <<0, 0, 1>>>>)
MirrorY == MatInt(<<<<1, 0, 0>>, <<0, -1, 0>>, <<0, 0, 1>>>>)

AlongChain(k, n) == VecOf(LAMBDA a : IF a = 0 THEN Rat(k, n) ELSE RZero)

ChainOperations(n) ==
    {[rot |-> RotIdentity, trans |-> AlongChain(k, n),
      perm |-> [a \in Atoms(n) |-> (a + k) % n]] : k \in Atoms(n)}
    \cup {[rot |-> MirrorX, trans |-> AlongChain(k, n),
           perm |-> [a \in Atoms(n) |-> (k + n - a) % n]] : k \in Atoms(n)}
    \cup {[rot |-> MirrorY, trans |-> AlongChain(0, n),
           perm |-> [a \in Atoms(n) |-> a]]}

ChainOperationLists(n) ==
    UNION {[0 .. (m - 1) -> ChainOperations(n)] : m \in 1 .. MaxRot}

RECURSIVE OrbitOf(_, _, _)
OrbitOf(S, ops, k) ==
    IF k = 0 THEN S
    ELSE OrbitOf(S \cup {ops[s].perm[x] : s \in DOMAIN ops, x \in S}
                   \cup {x \in DOMAIN ops[0].perm :
                            \E s \in DOMAIN ops : ops[s].perm[x] \in S},
                 ops, k - 1)

Least(S) == CHOOSE x \in S : \A y \in S : x <= y
ButLast(list) == SubSeq(list, 1, Len(list) - 1)

InitTensorSym ==
    /\ call = "none"
    /\ error = "none"
    /\ \E n \in 1 .. MaxAtoms : \E ops \in ChainOperationLists(n) :
          LET reps == [a \in Atoms(n) |-> Least(OrbitOf({a}, ops, n))]
              indep == SortedList(Range(reps))
          IN  /\ permutations =
                    [num_rot |-> Cardinality(DOMAIN ops), num_pos |-> n,
                     at |-> [s \in DOMAIN ops |-> ops[s].perm]]
              /\ geometry = [lattice |-> Cubic,
                             rotations |-> [s \in DOMAIN ops |-> ops[s].rot]]
              /\ crystal =
                    [kind |-> "chain",
                     positions |-> [k \in Atoms(n) |-> AlongChain(k, n)],
                     translations |-> [s \in DOMAIN ops |-> ops[s].trans],
                     map_atoms |-> reps]
              /\ atom_list_done \in {indep, ButLast(indep)}
              /\ force_constants = IndexTensor(n, n)
    /\ atom_list = None
    /\ phonoc = TRUE
    /\ thermal = None
    /\ args = None
    /\ trace = << >>
    /\ fc_in = None
    /\ map_atoms = None
    /\ map_syms = None
    /\ primitive = NoPrimitive
    /\ dataset = None
    /\ level = -1
    /\ per_index = -1
    /\ result = None

SetTensorSymmetry ==
    /\ call = "none"
    /\ crystal.kind = "chain"
    /\ \E r \in {set_tensor_symmetry(force_constants, geometry.lattice,
                    crystal.positions, geometry.rotations,
                    crystal.translations, crystal.map_atoms, atom_list_done,
                    permutations, phonoc)} :
          force_constants' = r.fc /\ error' = r.error
    /\ fc_in' = force_constants
    /\ call' = "set_tensor_symmetry"
    /\ UNCHANGED <<permutations, atom_list_done, map_atoms, map_syms, geometry,
                   atom_list, primitive, dataset, level, per_index, crystal,
                   phonoc, args, trace, result, thermal>>

DistributeForceConstants ==
    /\ call = "none"
    /\ \E r \in {distribute_force_constants(force_constants, atom_list_done,
                    geometry.lattice, geometry.rotations, permutations,
                    atom_list, phonoc)} :
          force_constants' = r.fc /\ error' = r.error
    /\ fc_in' = force_constants
    /\ call' = "distribute_force_constants"
    /\ UNCHANGED <<permutations, atom_list_done, map_atoms, map_syms, geometry,
                   atom_list, primitive, dataset, level, per_index, crystal,
                   phonoc, args, trace, result, thermal>>

NextDist == DistributeForceConstants \/ SetTensorSymmetry

SpecDist == (InitDist \/ InitTensorSym) /\ [][NextDist]_vars

-----------------------------------------------------------------------------
(* Distribution over a tensor that already has the symmetry of the chain:  *)
(* the block of atoms (a, j) depends on the separation j - a only, its     *)
(* diagonal even and its xz, zx elements odd in the separation, which is   *)
(* what the translations and the two mirrors of the chain leave invariant; *)
(* the block is given in lattice coordinates and taken to Cartesian ones.  *)

ChainBlock(d, n) ==
    LET e == IF d <= n - d THEN d ELSE n - d
        o == IF d = 0 THEN 0 ELSE d - (n - d)
    IN  MatInt(<<<<1 + e, 0, o>>, <<0, 2 + e, 0>>, <<2 * o, 0, 3 + (2 * e)>>>>)

ChainTensor(lattice, n) ==
    Array([a \in Atoms(n) |-> Array([j \in Atoms(n) |->
        similarity_transformation(lattice, ChainBlock((j + n - a) % n, n))])])

InitInvariant ==
    /\ call = "none"
    /\ error = "none"
    /\ \E n \in 1 .. MaxAtoms : \E ops \in ChainOperationLists(n) :
          /\ permutations =
                [num_rot |-> Cardinality(DOMAIN ops), num_pos |-> n,
                 at |-> [s \in DOMAIN ops |-> ops[s].perm]]
          /\ geometry = [lattice |-> Skew,
                         rotations |-> [s \in DOMAIN ops |-> ops[s].rot]]
          /\ \E D \in ({Atoms(n) \ {a} : a \in Atoms(n)} \cup {Atoms(n)}) \ {{}} :
                atom_list_done = SortedList(D)
          /\ force_constants = ChainTensor(Skew, n)
    /\ atom_list = None
    /\ phonoc = TRUE
    /\ thermal = None
    /\ args = None
    /\ trace = << >>
    /\ fc_in = None
    /\ map_atoms = None
    /\ map_syms = None
    /\ primitive = NoPrimitive
    /\ dataset = None
    /\ level = -1
    /\ per_index = -1
    /\ crystal = NoCrystal
    /\ result = None

NextInvariant == DistributeForceConstants

SpecInvariant == InitInvariant /\ [][NextInvariant]_vars

-----------------------------------------------------------------------------
(* Compact tensors and their expansion: a supercell of C cells with B      *)
(* atoms each, atom b of cell c at index b * C + c.  The primitive names   *)
(* one representative of every basis atom, in any cell, and lists the C    *)
(* lattice translations in any cyclic order.  The supercell symmetry is    *)
(* the translations, alone or with the operations that also reverse the    *)
(* basis.  A dataset displaces some of the representatives.                *)

Translation(d, C, B) ==
    [a \in Atoms(B * C) |-> ((a \div C) * C) + (((a % C) + d) % C)]
BasisReversal(d, C, B) ==
    [a \in Atoms(B * C) |-> ((B - 1 - (a \div C)) * C) + (((a % C) + d) % C)]

Concat(x, y) ==
    [i \in Atoms(Cardinality(DOMAIN x) + Cardinality(DOMAIN y)) |->
        IF i \in DOMAIN x THEN x[i] ELSE y[i - Cardinality(DOMAIN x)]]

TranslationOps(C, B) ==
    [d \in Atoms(C) |-> [perm |-> Translation(d, C, B), rot |-> RotIdentity]]
ReversalOps(C, B) ==
    [d \in Atoms(C) |-> [perm |-> BasisReversal(d, C, B), rot |-> RotFourfold]]
SymmetryLists(C, B) ==
    {TranslationOps(C, B),
     Concat(TranslationOps(C, B), ReversalOps(C, B)),
     Concat(ReversalOps(C, B), TranslationOps(C, B))}

Primitives(C, B) ==
    {[p2s_map |-> [k \in Atoms(B) |-> (k * C) + ((k * shift) % C)],
      s2p_map |-> [a \in Atoms(B * C) |->
                      ((a \div C) * C) + (((a \div C) * shift) % C)],
      permutations |->
          [num_rot |-> C, num_pos |-> B * C,
           at |-> [i \in Atoms(C) |-> Translation((first + i) % C, C, B)]]] :
     shift \in Atoms(C), first \in Atoms(C)}

(* the row solved for displaced atom d: every element a different integer *)
SolvedRow(d, n) ==
    Array([j \in Atoms(n) |->
        MatOf(LAMBDA a, b : RInt(((d * n + j) * Dim + a) * Dim + b + 1))])

Reverse(list) == [k \in 1 .. Len(list) |-> list[Len(list) + 1 - k]]

(* first_atoms lists the displaced atoms in descending order, then again   *)
(* in ascending order (several displacements of one atom)                  *)
Datasets(p2s_map, n) ==
    {[numbers |-> Reverse(SortedList(D)) \o SortedList(D),
      solution |-> [d \in D |-> SolvedRow(d, n)]] :
     D \in (SUBSET Range(p2s_map)) \ {{}}}

InitExpand ==
    /\ call = "none"
    /\ error = "none"
    /\ \E C \in 1 .. MaxCells, B \in 1 .. MaxBasis :
          /\ primitive \in Primitives(C, B)
          /\ \E ops \in SymmetryLists(C, B) :
                /\ permutations =
                      [num_rot |-> Cardinality(DOMAIN ops), num_pos |-> B * C,
                       at |-> [s \in DOMAIN ops |-> ops[s].perm]]
                /\ geometry = [lattice |-> Skew,
                               rotations |-> [s \in DOMAIN ops |-> ops[s].rot]]
          /\ dataset \in {None} \cup Datasets(primitive.p2s_map, B * C)
          /\ force_constants =
                IF dataset = None THEN IndexTensor(B, B * C) ELSE None
    /\ atom_list = None
    /\ atom_list_done = None
    /\ phonoc = TRUE
    /\ thermal = None
    /\ args = None
    /\ trace = << >>
    /\ fc_in = None
    /\ map_atoms = None
    /\ map_syms = None
    /\ level = -1
    /\ per_index = -1
    /\ crystal = NoCrystal
    /\ result = None

(* get_fc2 on the dataset, with atom_list None or the p2s map *)
GetFc2 ==
    /\ call = "none"
    /\ dataset # None
    /\ \E atoms \in {None, ListOf(primitive.p2s_map)} :
          /\ atom_list' = atoms
          /\ \E r \in {get_fc2(permutations.num_pos, dataset, atoms,
                                geometry.lattice, geometry.rotations,
                                permutations, phonoc)} :
                /\ error' = r.error
                /\ force_constants' = IF r.error = "none" THEN r.fc ELSE None
    /\ call' = "get_fc2"
    /\ UNCHANGED <<permutations, atom_list_done, map_atoms, map_syms, fc_in,
                   geometry, primitive, dataset, level, per_index, crystal,
                   phonoc, args, trace, result, thermal>>

(* compact_fc_to_full_fc on a compact tensor: one that was supplied, or    *)
(* the one get_fc2 returned for atom_list = p2s                            *)
CompactFcToFullFc ==
    /\ \/ call = "none" /\ dataset = None
       \/ call = "get_fc2" /\ error = "none" /\ atom_list # None
    /\ \E r \in {compact_fc_to_full_fc(force_constants, primitive,
                                        geometry.lattice, phonoc)} :
          /\ error' = r.error
          /\ result' = IF r.error = "none" THEN r.fc ELSE None
    /\ call' = "compact_fc_to_full_fc"
    /\ UNCHANGED <<permutations, atom_list_done, map_atoms, map_syms,
                   force_constants, fc_in, geometry, atom_list, primitive,
                   dataset, level, per_index, crystal, phonoc, args, trace,
                   thermal>>

NextExpand == GetFc2 \/ CompactFcToFullFc

SpecExpand == InitExpand /\ [][NextExpand]_vars

-----------------------------------------------------------------------------
(* Invariance enforcers on a tensor of any content, full or compact *)

InitSym ==
    /\ call = "none"
    /\ error = "none"
    /\ \E n \in 1 .. MaxAtoms : \E rows \in 1 .. n :
          force_constants \in Tensors(rows, n)
    /\ fc_in = None
    /\ permutations = None
    /\ atom_list_done = None
    /\ map_atoms = None
    /\ map_syms = None
    /\ geometry = NoGeometry
    /\ atom_list = None
    /\ primitive = NoPrimitive
    /\ crystal = NoCrystal
    /\ dataset = None
    /\ level = -1
    /\ per_index = -1
    /\ phonoc = FALSE
    /\ thermal = None
    /\ args = None
    /\ trace = << >>
    /\ result = None

SymFrame ==
    UNCHANGED <<permutations, atom_list_done, map_atoms, map_syms, geometry,
                atom_list, primitive, dataset, crystal, phonoc, args, result,
                thermal>>

SetTranslationalInvariancePerIndex ==
    /\ call = "none"
    /\ \E ix \in 0 .. 1 :
          /\ force_constants' =
                set_translational_invariance_per_index(force_constants, ix)
          /\ per_index' = ix
          /\ trace' = Append(trace,
                [pass |-> "set_translational_invariance_per_index",
                 index |-> ix])
    /\ UNCHANGED level
    /\ fc_in' = force_constants
    /\ error' = "none"
    /\ call' = "set_translational_invariance_per_index"
    /\ SymFrame

SetTranslationalInvariance ==
    /\ call = "none"
    /\ force_constants' = set_translational_invariance(force_constants)
    /\ trace' = trace \o translational_steps
    /\ fc_in' = force_constants
    /\ error' = "none"
    /\ call' = "set_translational_invariance"
    /\ UNCHANGED <<level, per_index>>
    /\ SymFrame

SetPermutationSymmetry ==
    /\ call = "none"
    /\ \E r \in {set_permutation_symmetry(force_constants)} :
          force_constants' = r.fc /\ error' = r.error
    /\ trace' = Append(trace, permutation_step)
    /\ fc_in' = force_constants
    /\ call' = "set_permutation_symmetry"
    /\ UNCHANGED <<level, per_index>>
    /\ SymFrame

SymmetrizeForceConstants ==
    /\ call = "none"
    /\ \E lev \in 0 .. MaxLevel :
          /\ \E r \in {symmetrize_force_constants(force_constants, lev)} :
                /\ force_constants' = r.fc
                /\ error' = r.error
                /\ trace' = trace \o r.trace
          /\ level' = lev
    /\ UNCHANGED per_index
    /\ fc_in' = force_constants
    /\ call' = "symmetrize_force_constants"
    /\ SymFrame

NextSym ==
    \/ SetTranslationalInvariancePerIndex
    \/ SetTranslationalInvariance
    \/ SetPermutationSymmetry
    \/ SymmetrizeForceConstants

SpecSym == InitSym /\ [][NextSym]_vars

-----------------------------------------------------------------------------
(* Cutoff on a line of C cells of length B + 1 with B atoms each: atom b   *)
(* of cell c has index b * C + c and sits at c * (B + 1) + b.  The tensor  *)
(* is full, or compact on the rows of a primitive.  Cutoffs may follow     *)
(* each other on the same buffer.                                          *)

Line(C, B) ==
    [kind |-> "line",
     positions |-> [a \in Atoms(B * C) |-> ((a % C) * (B + 1)) + (a \div C)],
     period |-> C * (B + 1)]

InitCutoff ==
    /\ call = "none"
    /\ error = "none"
    /\ \E C \in 1 .. MaxCells, B \in 1 .. MaxBasis :
          /\ crystal = Line(C, B)
          /\ primitive \in Primitives(C, B)
          /\ force_constants \in
                {IndexTensor(B * C, B * C), IndexTensor(B, B * C)}
                    \cup {DenseTensor(B * C, B * C, seed) : seed \in 1 .. MaxSeed}
    /\ fc_in = None
    /\ permutations = None
    /\ atom_list_done = None
    /\ map_atoms = None
    /\ map_syms = None
    /\ geometry = NoGeometry
    /\ atom_list = None
    /\ dataset = None
    /\ level = -1
    /\ per_index = -1
    /\ phonoc = TRUE
    /\ thermal = None
    /\ args = None
    /\ trace = << >>
    /\ result = None

(* cutoff_force_constants with any radius; args lists the radii so far *)
CutoffForceConstants ==
    /\ Len(args) < MaxCutoffs
    /\ \E cutoff_radius \in 0 .. MaxRadius :
          /\ force_constants' =
                cutoff_force_constants(force_constants, crystal, primitive,
                                       cutoff_radius)
          /\ args' = Append(args, cutoff_radius)
    /\ fc_in' = force_constants
    /\ call' = "cutoff_force_constants"
    /\ error' = "none"
    /\ UNCHANGED <<permutations, atom_list_done, map_atoms, map_syms, geometry,
                   atom_list, primitive, dataset, level, per_index, crystal,
                   phonoc, trace, result, thermal>>

NextCutoff == CutoffForceConstants

SpecCutoff == InitCutoff /\ [][NextCutoff]_vars

-----------------------------------------------------------------------------
(* The entry points that import the native module, called without it, on   *)
(* a supercell of C cells with B atoms each: the tensor is full or compact *)
(* on the primitive, whose atoms are the done ones.                        *)

InitFallback ==
    /\ call = "none"
    /\ error = "none"
    /\ \E C \in 1 .. MaxCells, B \in 1 .. MaxBasis :
          /\ primitive \in Primitives(C, B)
          /\ \E ops \in SymmetryLists(C, B) :
                /\ permutations =
                      [num_rot |-> Cardinality(DOMAIN ops), num_pos |-> B * C,
                       at |-> [s \in DOMAIN ops |-> ops[s].perm]]
                /\ geometry = [lattice |-> Skew,
                               rotations |-> [s \in DOMAIN ops |-> ops[s].rot]]
          /\ atom_list_done = SortedList(Range(primitive.p2s_map))
          /\ \/ /\ force_constants = IndexTensor(B * C, B * C)
                /\ atom_list = None
             \/ /\ force_constants = IndexTensor(B, B * C)
                /\ atom_list = SortedList(Range(primitive.p2s_map))
    /\ phonoc = FALSE
    /\ thermal = None
    /\ args = None
    /\ trace = << >>
    /\ fc_in = None
    /\ map_atoms = None
    /\ map_syms = None
    /\ dataset = None
    /\ level = -1
    /\ per_index = -1
    /\ crystal = NoCrystal
    /\ result = None

SymmetrizeCompactForceConstants ==
    /\ call = "none"
    /\ Shape0(force_constants) = Cardinality(DOMAIN primitive.p2s_map)
    /\ \E lev \in 0 .. MaxLevel :
          /\ \E r \in {symmetrize_compact_force_constants(force_constants,
                                                          primitive, lev)} :
                force_constants' = r.fc /\ error' = r.error
          /\ level' = lev
    /\ fc_in' = force_constants
    /\ call' = "symmetrize_compact_force_constants"
    /\ UNCHANGED <<permutations, atom_list_done, map_atoms, map_syms, geometry,
                   atom_list, primitive, dataset, per_index, crystal, phonoc,
                   args, trace, result, thermal>>

NextFallback ==
    \/ SymmetrizeForceConstants
    \/ SymmetrizeCompactForceConstants
    \/ DistributeForceConstants

SpecFallback == InitFallback /\ [][NextFallback]_vars

-----------------------------------------------------------------------------
(* The drift diagnostic, on a tensor as given or as an enforcer left it *)

DriftNames == {"force constants", "fc2"}

ShowDriftForceConstants ==
    /\ call # "show_drift_force_constants"
    /\ error = "none"
    /\ \E name \in DriftNames, values_only \in BOOLEAN :
          /\ \E r \in {show_drift_force_constants(force_constants, primitive,
                                                  name, values_only)} :
                /\ force_constants' = r.fc
                /\ error' = r.error
                /\ trace' = IF r.error = "none" THEN Append(trace, r.text)
                            ELSE trace
          /\ args' = Append(args, [name |-> name, values_only |-> values_only])
    /\ fc_in' = force_constants
    /\ call' = "show_drift_force_constants"
    /\ UNCHANGED <<permutations, atom_list_done, map_atoms, map_syms, geometry,
                   atom_list, primitive, dataset, level, per_index, crystal,
                   phonoc, result, thermal>>

NextDrift == NextSym \/ ShowDriftForceConstants

SpecDrift == InitSym /\ [][NextDrift]_vars

-----------------------------------------------------------------------------
(* set_tensor_symmetry with the symmetry a group: the operations of the    *)
(* chain generated by up to two of them or by all, listed in some order or *)
(* in the reverse of it, or with the last operation left out (which        *)
(* leaves a group or not); map_atoms names the least atom of every orbit.  *)

Frac(v) == VecOf(LAMBDA a : Rat(v[a][1] % v[a][2], v[a][2]))

(* the operation "h, then g" *)
Compose(g, h) ==
    [rot |-> MatMul(g.rot, h.rot),
     trans |-> Frac(VecAdd(MatVec(g.rot, h.trans), g.trans)),
     perm |-> [a \in DOMAIN h.perm |-> g.perm[h.perm[a]]]]

RECURSIVE Generated(_)
Generated(S) ==
    The({IF T = S THEN S ELSE Generated(T) :
         T \in {S \cup {Compose(g, h) : g \in S, h \in S}}})

ChainGroups(n) ==
    {Generated({g, h}) : g \in ChainOperations(n), h \in ChainOperations(n)}
    \cup {Generated(ChainOperations(n))}

RECURSIVE Listed(_)
Listed(S) ==
    IF S = {} THEN << >>
    ELSE The({<<x>> \o Listed(S \ {x}) : x \in {CHOOSE y \in S : TRUE}})

ChainGroupLists(n) ==
    UNION {{ArrayOf(l), ArrayOf(Reverse(l))} \cup
           (IF Len(l) > 1 THEN {ArrayOf(ButLast(l))} ELSE {}) :
           l \in {Listed(G) : G \in ChainGroups(n)}}

InitGroup ==
    /\ call = "none"
    /\ error = "none"
    /\ \E n \in 1 .. MaxAtoms : \E ops \in ChainGroupLists(n) :
          \E reps \in {[a \in Atoms(n) |-> Least(OrbitOf({a}, ops, n))]} :
              /\ permutations =
                    [num_rot |-> Cardinality(DOMAIN ops), num_pos |-> n,
                     at |-> [s \in DOMAIN ops |-> ops[s].perm]]
              /\ geometry = [lattice |-> Cubic,
                             rotations |-> [s \in DOMAIN ops |-> ops[s].rot]]
              /\ crystal =
                    [kind |-> "chain",
                     positions |-> [k \in Atoms(n) |-> AlongChain(k, n)],
                     translations |-> [s \in DOMAIN ops |-> ops[s].trans],
                     map_atoms |-> reps]
              /\ atom_list_done = SortedList(Range(reps))
              /\ force_constants = IndexTensor(n, n)
    /\ atom_list = None
    /\ phonoc = TRUE
    /\ thermal = None
    /\ args = None
    /\ trace = << >>
    /\ fc_in = None
    /\ map_atoms = None
    /\ map_syms = None
    /\ primitive = NoPrimitive
    /\ dataset = None
    /\ level = -1
    /\ per_index = -1
    /\ result = None

NextGroup == SetTensorSymmetry

SpecGroup == InitGroup /\ [][NextGroup]_vars

-----------------------------------------------------------------------------
(* The solver on a cross of atoms in the cubic cell: atom 0 at the origin  *)
(* and one atom a quarter of the cell along +x, +y, -x and -y.  The        *)
(* displaced atom is the centre or the atom on +x; the site symmetry is a  *)
(* list of operations that fix it.  Every measured force is a different    *)
(* integer.                                                                *)

Quarters(x, y) ==
    VecOf(LAMBDA a : IF a = 0 THEN Rat(x, 4) ELSE IF a = 1 THEN Rat(y, 4)
                     ELSE RZero)
Cross == ArrayOf(<<Quarters(0, 0), Quarters(1, 0), Quarters(0, 1),
                   Quarters(3, 0), Quarters(0, 3)>>)

SiteOperations(atom) ==
    IF atom = 0
    THEN {RotIdentity, RotFourfold, MatMul(RotFourfold, RotFourfold),
          MirrorX, MirrorY}
    ELSE {RotIdentity, MirrorY}
SiteSymmetries(atom) ==
    UNION {{ArrayOf(l) : l \in [1 .. m -> SiteOperations(atom)]} :
           m \in 1 .. MaxSiteSym}

DisplacementVectors ==
    {VecInt(<<1, 0, 0>>), VecInt(<<0, 1, 1>>)}
DisplacementSets ==
    UNION {{ArrayOf(l) : l \in [1 .. m -> DisplacementVectors]} :
           m \in 1 .. MaxDisp}

ForceSets(n_disp, n_atom) ==
    Array([d \in Atoms(n_disp) |-> Array([k \in Atoms(n_atom) |->
        VecOf(LAMBDA a : RInt((((d * n_atom) + k) * Dim) + a + 1))])])

InitSolve ==
    /\ call = "none"
    /\ error = "none"
    /\ \E disp_atom_number \in 0 .. 1 :
          /\ geometry \in {[lattice |-> Cubic, rotations |-> syms] :
                              syms \in SiteSymmetries(disp_atom_number)}
          /\ dataset \in
                {[disp_atom_number |-> disp_atom_number,
                  displacements |-> disps,
                  sets_of_forces |->
                      ForceSets(Cardinality(DOMAIN disps),
                                Cardinality(DOMAIN Cross))] :
                 disps \in DisplacementSets}
    /\ crystal = [kind |-> "cross", positions |-> Cross]
    /\ force_constants = None
    /\ fc_in = None
    /\ permutations = None
    /\ atom_list_done = None
    /\ map_atoms = None
    /\ map_syms = None
    /\ atom_list = None
    /\ primitive = NoPrimitive
    /\ level = -1
    /\ per_index = -1
    /\ phonoc = TRUE
    /\ thermal = None
    /\ args = None
    /\ trace = << >>
    /\ result = None

SolveForceConstantsSvd ==
    /\ call = "none"
    /\ result' = _solve_force_constants_svd_system(
                     dataset.disp_atom_number, dataset.displacements,
                     dataset.sets_of_forces, geometry.lattice,
                     crystal.positions, geometry.rotations)
    /\ call' = "_solve_force_constants_svd"
    /\ UNCHANGED <<error, permutations, atom_list_done, map_atoms, map_syms,
                   force_constants, fc_in, geometry, atom_list, primitive,
                   dataset, level, per_index, crystal, phonoc, args, trace,
                   thermal>>

NextSolve == SolveForceConstantsSvd

SpecSolve == InitSolve /\ [][NextSolve]_vars

-----------------------------------------------------------------------------
(* Harmonic potential energy of displacement arrays of 1 to 4 dimensions   *)
(* on full and on rectangular tensors; the number of displaced atoms may   *)
(* differ from the tensor's.                                               *)

AtomDisplacements == {VecInt(<<1, 0, 0>>), VecInt(<<0, -1, 2>>)}

(* one displacement per atom: shape (m, 3) *)
DisplacementsOfAtoms(m) ==
    {ArrayOf(l) : l \in [1 .. m -> AtomDisplacements]}

DisplacementArrays(m) ==
    {[shape |-> <<Dim>>, at |-> v] : v \in AtomDisplacements}
    \cup {[shape |-> <<m, Dim>>, at |-> d] : d \in DisplacementsOfAtoms(m)}
    \cup UNION {{[shape |-> <<k, m, Dim>>, at |-> ArrayOf(l)] :
                    l \in [1 .. k -> DisplacementsOfAtoms(m)]} :
                k \in 0 .. MaxEnergySets}
    \cup {[shape |-> <<1, 1, m, Dim>>, at |-> ArrayOf(<<ArrayOf(<<d>>)>>)] :
             d \in DisplacementsOfAtoms(m)}

InitEnergy ==
    /\ call = "none"
    /\ error = "none"
    /\ \E rows \in 1 .. MaxEnergyAtoms, cols \in 1 .. MaxEnergyAtoms :
          force_constants \in
              {IndexTensor(rows, cols)}
                  \cup {DenseTensor(rows, cols, seed) : seed \in 1 .. MaxSeed}
    /\ \E m \in 1 .. MaxEnergyAtoms : dataset \in DisplacementArrays(m)
    /\ fc_in = None
    /\ permutations = None
    /\ atom_list_done = None
    /\ map_atoms = None
    /\ map_syms = None
    /\ geometry = NoGeometry
    /\ atom_list = None
    /\ primitive = NoPrimitive
    /\ crystal = NoCrystal
    /\ level = -1
    /\ per_index = -1
    /\ phonoc = TRUE
    /\ thermal = None
    /\ args = None
    /\ trace = << >>
    /\ result = None

(* trace lists the number of energies each call evaluated *)
GetHarmonicPotentialEnergy ==
    /\ call = "none"
    /\ \E r \in {get_harmonic_potential_energy(force_constants, dataset)} :
          /\ error' = r.error
          /\ result' = r.result
          /\ trace' = Append(trace, r.computed)
    /\ fc_in' = force_constants
    /\ call' = "get_harmonic_potential_energy"
    /\ UNCHANGED <<permutations, atom_list_done, map_atoms, map_syms,
                   force_constants, geometry, atom_list, primitive, dataset,
                   level, per_index, crystal, phonoc, args, thermal>>

NextEnergy == GetHarmonicPotentialEnergy

SpecEnergy == InitEnergy /\ [][NextEnergy]_vars

-----------------------------------------------------------------------------
(* Symmetrization passes following each other on the same full tensor      *)
(* (pure path); trace lists every call with the tensor before and after it *)

InitRepeat ==
    /\ call = "none"
    /\ error = "none"
    /\ \E n \in 1 .. MaxAtoms :
          force_constants \in
              {IndexTensor(n, n)}
                  \cup {DenseTensor(n, n, seed) : seed \in 1 .. MaxSeed}
    /\ fc_in = None
    /\ permutations = None
    /\ atom_list_done = None
    /\ map_atoms = None
    /\ map_syms = None
    /\ geometry = NoGeometry
    /\ atom_list = None
    /\ primitive = NoPrimitive
    /\ crystal = NoCrystal
    /\ dataset = None
    /\ level = -1
    /\ per_index = -1
    /\ phonoc = FALSE
    /\ thermal = None
    /\ args = None
    /\ trace = << >>
    /\ result = None

Called(name, lev, before, after) ==
    [call |-> name, level |-> lev, before |-> before, after |-> after]

SymmetrizeForceConstantsAgain ==
    /\ Len(trace) < MaxCalls
    /\ error = "none"
    /\ \E lev \in 0 .. MaxLevel :
          /\ \E r \in {symmetrize_force_constants(force_constants, lev)} :
                /\ force_constants' = r.fc
                /\ error' = r.error
                /\ trace' = Append(trace,
                      Called("symmetrize_force_constants", lev,
                             force_constants, r.fc))
          /\ level' = lev
    /\ UNCHANGED per_index
    /\ fc_in' = force_constants
    /\ call' = "symmetrize_force_constants"
    /\ SymFrame

SetTranslationalInvarianceAgain ==
    /\ Len(trace) < MaxCalls
    /\ error = "none"
    /\ \E r \in {set_translational_invariance(force_constants)} :
          /\ force_constants' = r
          /\ trace' = Append(trace,
                Called("set_translational_invariance", -1, force_constants, r))
    /\ fc_in' = force_constants
    /\ error' = "none"
    /\ call' = "set_translational_invariance"
    /\ UNCHANGED <<level, per_index>>
    /\ SymFrame

SetPermutationSymmetryAgain ==
    /\ Len(trace) < MaxCalls
    /\ error = "none"
    /\ \E r \in {set_permutation_symmetry(force_constants)} :
          /\ force_constants' = r.fc
          /\ error' = r.error
          /\ trace' = Append(trace,
                Called("set_permutation_symmetry", -1, force_constants, r.fc))
    /\ fc_in' = force_constants
    /\ call' = "set_permutation_symmetry"
    /\ UNCHANGED <<level, per_index>>
    /\ SymFrame

NextRepeat ==
    \/ SymmetrizeForceConstantsAgain
    \/ SetTranslationalInvarianceAgain
    \/ SetPermutationSymmetryAgain

SpecRepeat == InitRepeat /\ [][NextRepeat]_vars

-----------------------------------------------------------------------------
(* Force constants from a displacement dataset on the cross supercell:     *)
(* entries of atoms 0 .. 2 in any order, several per atom, every measured  *)
(* force a different integer; the rows are those of all atoms or of an     *)
(* atom list.                                                              *)

DisplacedAtoms == {0, 1, 2}

(* the site symmetry of an atom of the cross: the mirror through its axis *)
CrossSiteSymmetry(n) ==
    ArrayOf(<<RotIdentity, IF Cross[n][1] = RZero THEN MirrorY ELSE MirrorX>>)

EntryForces(e) ==
    Array([k \in DOMAIN Cross |->
        VecOf(LAMBDA a : RInt((((e * Cardinality(DOMAIN Cross)) + k) * Dim) + a + 1))])

(* the displacements of successive entries alternate between the two      *)
(* vectors, starting with either                                           *)
EntryDisplacements(m) ==
    {[e \in 1 .. m |-> IF (e + s) % 2 = 0 THEN VecInt(<<1, 0, 0>>)
                                          ELSE VecInt(<<0, 1, 1>>)] :
     s \in 0 .. 1}

FirstAtoms ==
    UNION {{[e \in 1 .. m |->
                [number |-> numbers[e], displacement |-> disps[e],
                 forces |-> EntryForces(e)]] :
            numbers \in [1 .. m -> DisplacedAtoms],
            disps \in EntryDisplacements(m)} :
           m \in 1 .. MaxEntries}

AtomListsOfCross == {None, <<2, 0, 1>>, <<1, 0>>}

InitDisps ==
    /\ call = "none"
    /\ error = "none"
    /\ dataset \in {[first_atoms |-> f] : f \in FirstAtoms}
    /\ atom_list \in AtomListsOfCross
    /\ force_constants =
          zeros(IF atom_list = None THEN Cardinality(DOMAIN Cross)
                ELSE Len(atom_list), Cardinality(DOMAIN Cross))
    /\ geometry = [lattice |-> Cubic,
                   rotations |-> [n \in DOMAIN Cross |-> CrossSiteSymmetry(n)]]
    /\ crystal = [kind |-> "cross", positions |-> Cross]
    /\ fc_in = None
    /\ permutations = None
    /\ atom_list_done = None
    /\ map_atoms = None
    /\ map_syms = None
    /\ primitive = NoPrimitive
    /\ level = -1
    /\ per_index = -1
    /\ phonoc = TRUE
    /\ thermal = None
    /\ args = None
    /\ trace = << >>
    /\ result = None

(* trace lists the solve_force_constants calls, result is the returned     *)
(* disp_atom_list                                                          *)
GetForceConstantsDisps ==
    /\ call = "none"
    /\ \E r \in {_get_force_constants_disps_of_entries(
                     force_constants,
                     [lattice |-> geometry.lattice,
                      scaled_positions |-> crystal.positions],
                     dataset.first_atoms, geometry.rotations, atom_list)} :
          /\ force_constants' = r.fc
          /\ error' = r.error
          /\ trace' = r.calls
          /\ result' = r.disp_atom_list
    /\ fc_in' = force_constants
    /\ call' = "_get_force_constants_disps"
    /\ UNCHANGED <<permutations, atom_list_done, map_atoms, map_syms, geometry,
                   atom_list, primitive, dataset, level, per_index, crystal,
                   phonoc, args, thermal>>

NextDisps == GetForceConstantsDisps

SpecDisps == InitDisps /\ [][NextDisps]_vars

-----------------------------------------------------------------------------
(* solve_force_constants on its own: a tensor with a row per atom, or with *)
(* a row per element of an atom list that may repeat or lack atoms; the    *)
(* dataset carries the row the solver gives for every atom.                *)

InitSolveRow ==
    /\ call = "none"
    /\ error = "none"
    /\ \E n \in 1 .. MaxAtoms :
          /\ atom_list \in {None} \cup (AtomLists(n, MaxAtoms) \ {<< >>})
          /\ \E seed \in 1 .. MaxSeed :
                force_constants =
                    DenseTensor(IF atom_list = None THEN n ELSE Len(atom_list),
                                n, seed)
          /\ dataset = [numbers |-> << >>,
                        solution |-> [d \in Atoms(n) |-> SolvedRow(d, n)]]
    /\ fc_in = None
    /\ permutations = None
    /\ atom_list_done = None
    /\ map_atoms = None
    /\ map_syms = None
    /\ geometry = NoGeometry
    /\ primitive = NoPrimitive
    /\ crystal = NoCrystal
    /\ level = -1
    /\ per_index = -1
    /\ phonoc = TRUE
    /\ thermal = None
    /\ args = None
    /\ trace = << >>
    /\ result = None

(* args lists the displaced atoms of the calls, trace the atoms the solver *)
(* was run for                                                             *)
SolveForceConstants ==
    /\ call = "none"
    /\ \E disp_atom_number \in DOMAIN dataset.solution :
          /\ \E r \in {solve_force_constants(force_constants, disp_atom_number,
                                             dataset, atom_list)} :
                /\ force_constants' = r.fc
                /\ error' = r.error
                /\ trace' = IF r.solved THEN Append(trace, disp_atom_number)
                            ELSE trace
          /\ args' = Append(args, disp_atom_number)
    /\ fc_in' = force_constants
    /\ call' = "solve_force_constants"
    /\ UNCHANGED <<permutations, atom_list_done, map_atoms, map_syms, geometry,
                   atom_list, primitive, dataset, level, per_index, crystal,
                   phonoc, result, thermal>>

NextSolveRow == SolveForceConstants

SpecSolveRow == InitSolveRow /\ [][NextSolveRow]_vars

-----------------------------------------------------------------------------
(* ThermalProperties objects after construction: one to MaxQpoints         *)
(* q-points of weight 1, 2, .. with three bands each, frequencies below,   *)
(* at and above the cutoff frequency (which the constructor keeps >= 0),   *)
(* with and without projection on real eigenvectors.                       *)

BandFrequencies ==
    {ArrayOf(<<RInt(-1), RInt(1), RInt(2)>>),
     ArrayOf(<<RZero, RInt(3), Rat(1, 2)>>),
     ArrayOf(<<RInt(2), RInt(1), RInt(2)>>)}

MeshFrequencies ==
    UNION {{ArrayOf(l) : l \in [1 .. n -> BandFrequencies]} :
           n \in 1 .. MaxQpoints}

MeshEigenvectors(f) ==
    Array([q \in DOMAIN f |-> Array([i \in DOMAIN f[q] |->
        Array([b \in DOMAIN f[q] |-> RInt(((q + i + 2 * b) % 3) - 1)])])])

ThermalObjects ==
    {[temperatures |-> None,
      frequencies |-> f,
      weights |-> [q \in DOMAIN f |-> q + 1],
      eigenvectors |-> MeshEigenvectors(f),
      cutoff_frequency |-> c,
      is_projection |-> p] :
     f \in MeshFrequencies, c \in {RZero, RInt(1)}, p \in BOOLEAN}

InitThermalRun ==
    /\ call = "none"
    /\ error = "none"
    /\ thermal \in ThermalObjects
    /\ force_constants = None
    /\ fc_in = None
    /\ permutations = None
    /\ atom_list_done = None
    /\ map_atoms = None
    /\ map_syms = None
    /\ geometry = NoGeometry
    /\ atom_list = None
    /\ primitive = NoPrimitive
    /\ crystal = NoCrystal
    /\ dataset = None
    /\ level = -1
    /\ per_index = -1
    /\ phonoc = TRUE
    /\ args = None
    /\ trace = << >>
    /\ result = None

RunTemperatures == {RInt(-3), RZero, Rat(3, 2), RInt(300)}

RunFrame ==
    UNCHANGED <<error, permutations, atom_list_done, map_atoms, map_syms,
                force_constants, fc_in, geometry, atom_list, primitive,
                dataset, level, per_index, crystal, phonoc, thermal>>

(* args holds the temperature of the last call, trace the evaluations of   *)
(* mode functions it made, result the value it returned                    *)
RunFreeEnergy ==
    /\ \E t \in RunTemperatures :
          /\ \E r \in {run_free_energy(thermal, t)} :
                /\ result' = [value |-> r.value, unit |-> r.unit]
                /\ trace' = r.calls
          /\ args' = <<t>>
    /\ call' = "run_free_energy"
    /\ RunFrame

RunHeatCapacity ==
    /\ \E t \in RunTemperatures :
          /\ \E r \in {run_heat_capacity(thermal, t)} :
                /\ result' = [value |-> r.value, unit |-> r.unit]
                /\ trace' = r.calls
          /\ args' = <<t>>
    /\ call' = "run_heat_capacity"
    /\ RunFrame

RunEntropy ==
    /\ \E t \in RunTemperatures :
          /\ \E r \in {run_entropy(thermal, t)} :
                /\ result' = [value |-> r.value, unit |-> r.unit]
                /\ trace' = r.calls
          /\ args' = <<t>>
    /\ call' = "run_entropy"
    /\ RunFrame

NextThermalRun == RunFreeEnergy \/ RunHeatCapacity \/ RunEntropy

SpecThermalRun == InitThermalRun /\ [][NextThermalRun]_vars

-----------------------------------------------------------------------------
(* A ThermalProperties object: temperatures set by the setter and by       *)
(* set_temperature_range, in any order and any number of times; args holds *)
(* the arguments of the last call.                                         *)

TemperatureValues == {RInt(-3), Rat(-1, 2), RZero, Rat(3, 2)}

TemperatureLists ==
    UNION {[1 .. m -> TemperatureValues] : m \in 0 .. MaxTemperatures}

InitThermal ==
    /\ call = "none"
    /\ error = "none"
    /\ thermal \in {o \in ThermalObjects :
                        /\ Cardinality(DOMAIN o.frequencies) = 1
                        /\ ~o.is_projection
                        /\ o.cutoff_frequency = RZero}
    /\ force_constants = None
    /\ fc_in = None
    /\ permutations = None
    /\ atom_list_done = None
    /\ map_atoms = None
    /\ map_syms = None
    /\ geometry = NoGeometry
    /\ atom_list = None
    /\ primitive = NoPrimitive
    /\ crystal = NoCrystal
    /\ dataset = None
    /\ level = -1
    /\ per_index = -1
    /\ phonoc = TRUE
    /\ args = None
    /\ trace = << >>
    /\ result = None

ThermalFrame ==
    UNCHANGED <<error, permutations, atom_list_done, map_atoms, map_syms,
                force_constants, fc_in, geometry, atom_list, primitive,
                dataset, level, per_index, crystal, phonoc, trace, result>>

SetTemperatures ==
    /\ \E temperatures \in TemperatureLists :
          /\ thermal' = [thermal EXCEPT
                !.temperatures = temperatures_setter(temperatures)]
          /\ args' = <<temperatures>>
    /\ call' = "temperatures"
    /\ ThermalFrame

SetTemperatureRange ==
    /\ \E t_min \in TemperatureValues \cup {None},
          t_max \in TemperatureValues \cup {None},
          t_step \in TemperatureValues \cup {None} :
          /\ thermal' = [thermal EXCEPT
                !.temperatures = set_temperature_range(t_min, t_max, t_step)]
          /\ args' = <<t_min, t_max, t_step>>
    /\ call' = "set_temperature_range"
    /\ ThermalFrame

NextThermal == SetTemperatures \/ SetTemperatureRange

SpecThermal == InitThermal /\ [][NextThermal]_vars

-----------------------------------------------------------------------------
(* Claims on the symmetry mapping (SpecMap) *)

MapCalled == call = "_get_sym_mappings_from_permutations"
DoneSet == Range(atom_list_done)
SymIndices == 0 .. (permutations.num_rot - 1)
AllAtoms == Atoms(permutations.num_pos)
Reaches(s, a) == permutations.at[s][a] \in DoneSet
Unreachable(a) == \A s \in SymIndices : ~Reaches(s, a)

(* C1: if some atom has no permutation sending it into the done list, the  *)
(* call raises ValueError and returns no mapping; a returned mapping holds *)
(* an entry other than -1 for every atom.                                  *)
C1_RaisesWhenUnreachable ==
    MapCalled =>
        /\ (\E a \in AllAtoms : Unreachable(a)) =>
               (error = "ValueError" /\ map_atoms = None /\ map_syms = None)
        /\ error = "none" =>
               /\ DOMAIN map_atoms = AllAtoms
               /\ DOMAIN map_syms = AllAtoms
               /\ \A a \in AllAtoms : map_atoms[a] # -1 /\ map_syms[a] # -1

C1_Witness ==
    /\ MapCalled
    /\ error = "ValueError"
    /\ permutations.num_rot = MaxRot
    /\ DoneSet # {}
    /\ \E a \in AllAtoms : ~Unreachable(a)
    /\ ~Unreachable(0)

(* C3: the operation recorded for an atom is the smallest index, in the    *)
(* supplied order, whose permutation sends the atom into the done list,    *)
(* and a call with the same done atoms listed in any other order returns   *)
(* the same (map_atoms, map_syms).                                         *)
C3_FirstOperationWins ==
    (MapCalled /\ error = "none") =>
        /\ \A a \in AllAtoms :
              /\ Reaches(map_syms[a], a)
              /\ \A s \in SymIndices : Reaches(s, a) => map_syms[a] <= s
        /\ \A other \in AtomLists(permutations.num_pos, MaxDone) :
              Range(other) = DoneSet =>
                LET r == _get_sym_mappings_from_permutations(permutations, other)
                IN  /\ r.error = "none"
                    /\ r.map_atoms = map_atoms
                    /\ r.map_syms = map_syms

C3_Witness ==
    /\ MapCalled
    /\ error = "none"
    /\ permutations.num_rot >= 2
    /\ Len(atom_list_done) = 2
    /\ atom_list_done[1] > atom_list_done[2]
    /\ \E a \in AllAtoms :
          /\ \A s \in SymIndices : Reaches(s, a)
          /\ permutations.at[0][a] # permutations.at[1][a]
    /\ \E a \in AllAtoms : map_syms[a] = 1

(* C4: a call that returns gives every atom a done atom, an operation      *)
(* index within range, and the two agree through the permutation; the      *)
(* closing assertions of the function never fail.                          *)
C4_MappingsConsistent ==
    MapCalled =>
        /\ error # "AssertionError"
        /\ error = "none" =>
              \A a \in AllAtoms :
                /\ map_atoms[a] \in DoneSet
                /\ 0 <= map_syms[a] /\ map_syms[a] < permutations.num_rot
                /\ permutations.at[map_syms[a]][a] = map_atoms[a]

C4_Witness ==
    /\ MapCalled
    /\ error = "none"
    /\ permutations.num_pos = MaxAtoms
    /\ \E a \in AllAtoms : map_syms[a] = 1 /\ map_atoms[a] # a
    /\ \E a \in AllAtoms : map_syms[a] = 0

IdentityAt(s) == \A a \in AllAtoms : permutations.at[s][a] = a
ContainsIdentity == \E s \in SymIndices : IdentityAt(s)

(* C22: when the permutation list contains the identity permutation, a     *)
(* call that returns maps every done atom to itself.                       *)
C22_DoneAtomsFixed ==
    (MapCalled /\ error = "none" /\ ContainsIdentity) =>
        \A d \in DoneSet : map_atoms[d] = d

(* what the scan gives instead: a done atom is mapped to itself when no    *)
(* operation listed before the identity sends it to a done atom; with the  *)
(* identity listed first that is every done atom                           *)
C22_DoneAtomsFixedUpToIdentity ==
    (MapCalled /\ error = "none") =>
        \A d \in DoneSet : \A s \in SymIndices :
            (IdentityAt(s) /\ \A r \in 0 .. (s - 1) : ~Reaches(r, d)) =>
                /\ map_atoms[d] = d
                /\ map_syms[d] = s

C22_IdentityFirstWitness ==
    /\ MapCalled
    /\ error = "none"
    /\ permutations.num_rot = 2
    /\ IdentityAt(0)
    /\ ~IdentityAt(1)
    /\ Cardinality(DoneSet) = 2
    /\ \E d \in DoneSet : Reaches(1, d) /\ permutations.at[1][d] # d

-----------------------------------------------------------------------------
(* Claims on the distribution (SpecDist) *)

DistCalled == call = "distribute_force_constants"
TensorSymCalled == call = "set_tensor_symmetry"

(* C2: when the call raises the ValueError of an atom that reaches no done *)
(* atom, the caller's tensor is as it was before the call, both in         *)
(* distribute_force_constants and in set_tensor_symmetry.                  *)
C2_NoWriteOnSymmetryError ==
    ((DistCalled \/ TensorSymCalled) /\ error = "ValueError") =>
        force_constants = fc_in

C2_Witness ==
    /\ TensorSymCalled
    /\ error = "ValueError"
    /\ phonoc
    /\ permutations.num_pos = MaxAtoms
    /\ Len(atom_list_done) >= 2
    /\ force_constants = fc_in
    /\ \E j \in DOMAIN fc_in[0], a \in Axes, b \in Axes :
          fc_in[atom_list_done[1]][j][a][b] # RZero

(* the target atoms by row, the Cartesian form of operation s and the row  *)
(* that holds a given atom                                                 *)
TargetAtoms ==
    IF atom_list = None THEN [i \in Atoms(permutations.num_pos) |-> i]
    ELSE [i \in Atoms(Len(atom_list)) |-> atom_list[i + 1]]
CartesianForm(s) ==
    MatMul(geometry.lattice,
           MatMul(geometry.rotations[s], MatInv(geometry.lattice)))
RowOf(atom) == CHOOSE i \in DOMAIN TargetAtoms : TargetAtoms[i] = atom
Transported(m, atom, j) ==
    MatMul(CartesianForm(m.map_syms[atom]),
           MatMul(fc_in[RowOf(m.map_atoms[atom])]
                       [permutations.at[m.map_syms[atom]][j]],
                  MatInv(CartesianForm(m.map_syms[atom]))))

(* C5: after distribute_force_constants succeeds, the block of every       *)
(* target atom and every column j is R_s Phi[map_atoms[atom], perm_s(j)]   *)
(* R_s^-1 with s = map_syms[atom], R_s = lattice rotation_s lattice^-1 and *)
(* the source row taken as it was before the call.                         *)
C5_TransportedBlocks ==
    (DistCalled /\ error = "none") =>
        \A m \in {_get_sym_mappings_from_permutations(permutations,
                                                       atom_list_done)} :
            \A i \in DOMAIN TargetAtoms, j \in AllAtoms :
                force_constants[i][j] = Transported(m, TargetAtoms[i], j)

C5_Witness ==
    /\ DistCalled
    /\ error = "none"
    /\ permutations.num_pos = MaxAtoms
    /\ geometry.lattice # MatEye
    /\ \E m \in {_get_sym_mappings_from_permutations(permutations,
                                                       atom_list_done)} :
          \E i \in DOMAIN TargetAtoms, j \in AllAtoms :
              /\ m.map_atoms[TargetAtoms[i]] # TargetAtoms[i]
              /\ geometry.rotations[m.map_syms[TargetAtoms[i]]] = RotFourfold
              /\ permutations.at[m.map_syms[TargetAtoms[i]]][j] # j
              /\ force_constants[i][j] #
                     fc_in[RowOf(m.map_atoms[TargetAtoms[i]])]
                          [permutations.at[m.map_syms[TargetAtoms[i]]][j]]
              /\ force_constants[i][j] # fc_in[i][j]

(* the tensor before the call has the symmetry of every supplied operation *)
InvariantBefore ==
    \A s \in SymIndices :
        \A R \in {CartesianForm(s)} : \A R_inv \in {MatInv(R)} :
            \A a \in AllAtoms, j \in AllAtoms :
                fc_in[a][j] =
                    MatMul(R, MatMul(fc_in[permutations.at[s][a]]
                                          [permutations.at[s][j]], R_inv))

(* C11: distribute_force_constants on a full tensor that has the symmetry  *)
(* of every supplied operation, with a non-empty done list that reaches    *)
(* every atom, leaves every block as it was.                               *)
C11_DistributorIdempotent ==
    (DistCalled /\ atom_list = None /\ atom_list_done # << >>
        /\ (\A a \in AllAtoms : ~Unreachable(a)) /\ InvariantBefore) =>
        /\ error = "none"
        /\ force_constants = fc_in

C11_Witness ==
    /\ DistCalled
    /\ error = "none"
    /\ atom_list = None
    /\ InvariantBefore
    /\ force_constants = fc_in
    /\ permutations.num_pos = MaxAtoms
    /\ Len(atom_list_done) < permutations.num_pos
    /\ \E m \in {_get_sym_mappings_from_permutations(permutations,
                                                       atom_list_done)} :
          \E a \in AllAtoms :
              /\ geometry.rotations[m.map_syms[a]] = MirrorX
              /\ m.map_atoms[a] # a
              /\ \E j \in AllAtoms :
                    fc_in[a][j] # fc_in[m.map_atoms[a]][j]

-----------------------------------------------------------------------------
(* Claims on the expansion of compact tensors (SpecExpand) *)

Expanded == call = "compact_fc_to_full_fc" /\ error = "none"
SupercellAtoms == DOMAIN primitive.s2p_map
PrimitiveAtoms == DOMAIN primitive.p2s_map

(* the primitive index k of the representative of atom s, and the first    *)
(* translation permutation, in the primitive's order, that takes s to it   *)
PrimitiveIndex(s) ==
    CHOOSE k \in PrimitiveAtoms : primitive.p2s_map[k] = primitive.s2p_map[s]
FirstTranslation(s) ==
    primitive.permutations.at[
        CHOOSE i \in DOMAIN primitive.permutations.at :
            /\ primitive.permutations.at[i][s] = primitive.s2p_map[s]
            /\ \A h \in 0 .. (i - 1) :
                   primitive.permutations.at[h][s] # primitive.s2p_map[s]]

(* C9: after compact_fc_to_full_fc every row s of the returned tensor is   *)
(* the compact row k of its representative p2s[k] with the columns taken   *)
(* through the first translation that carries s to p2s[k], no rotation     *)
(* applied; the seeded rows p2s[k] hold the compact rows unchanged.        *)
C9_ExpandedByTranslation ==
    Expanded =>
        /\ \A s \in SupercellAtoms, j \in SupercellAtoms :
              result[s][j] =
                  force_constants[PrimitiveIndex(s)][FirstTranslation(s)[j]]
        /\ \A k \in PrimitiveAtoms :
              result[primitive.p2s_map[k]] = force_constants[k]

C9_Witness ==
    /\ Expanded
    /\ dataset = None
    /\ Cardinality(PrimitiveAtoms) = MaxBasis
    /\ primitive.permutations.num_rot = MaxCells
    /\ \E k \in PrimitiveAtoms : primitive.p2s_map[k] % MaxCells # 0
    /\ \E j \in SupercellAtoms : primitive.permutations.at[0][j] # j
    /\ \E s \in SupercellAtoms, j \in SupercellAtoms :
          /\ primitive.s2p_map[s] # s
          /\ result[s][j] # force_constants[PrimitiveIndex(s)][j]
          /\ result[s][j] # MatZero

(* C10: for one supercell, symmetry and dataset whose displaced atoms are  *)
(* primitive representatives, get_fc2 with atom_list None and get_fc2 with *)
(* atom_list = p2s followed by compact_fc_to_full_fc agree on every row    *)
(* p2s[k], at every column.                                                *)
C10_DirectAgreesWithExpanded ==
    (Expanded /\ dataset # None) =>
        \A direct \in {get_fc2(permutations.num_pos, dataset, None,
                               geometry.lattice, geometry.rotations,
                               permutations, phonoc)} :
            /\ direct.error = "none"
            /\ \A k \in PrimitiveAtoms, j \in SupercellAtoms :
                  direct.fc[primitive.p2s_map[k]][j] =
                      result[primitive.p2s_map[k]][j]

C10_Witness ==
    /\ Expanded
    /\ dataset # None
    /\ atom_list = ListOf(primitive.p2s_map)
    /\ Cardinality(PrimitiveAtoms) = MaxBasis
    /\ primitive.permutations.num_rot = MaxCells
    /\ permutations.num_rot > MaxCells
    /\ \E k \in PrimitiveAtoms :
          /\ primitive.p2s_map[k] \notin Range(dataset.numbers)
          /\ primitive.p2s_map[k] # k
          /\ \E j \in SupercellAtoms : result[primitive.p2s_map[k]][j] # MatZero

-----------------------------------------------------------------------------
(* Claims on the invariance enforcers (SpecSym) *)

Rows == DOMAIN force_constants
Cols == DOMAIN force_constants[0]
Symmetrized == call = "symmetrize_force_constants" /\ error = "none"

(* the sum of the listed rationals, by cross-multiplication *)
RECURSIVE SumIsZero(_, _, _)
SumIsZero(qs, num, den) ==
    IF qs = << >> THEN num = 0
    ELSE SumIsZero(Tail(qs), num * Head(qs)[2] + Head(qs)[1] * den,
                   den * Head(qs)[2])

SeqOf(f, n) == [k \in 1 .. n |-> f[k - 1]]

(* C6: after symmetrize_force_constants (pure path, any level >= 0) on a   *)
(* full square tensor, for every axis pair the sum over the first atom     *)
(* index vanishes for every column and the sum over the second atom index  *)
(* vanishes for every row.                                                 *)
C6_SumRuleAfterSymmetrize ==
    (Symmetrized /\ IsSquare(force_constants)) =>
        \A a \in Axes, b \in Axes :
            /\ \A j \in Cols :
                  SumIsZero(SeqOf([i \in Rows |-> force_constants[i][j][a][b]],
                                  Shape0(force_constants)), 0, 1)
            /\ \A i \in Rows :
                  SumIsZero(SeqOf([j \in Cols |-> force_constants[i][j][a][b]],
                                  Shape1(force_constants)), 0, 1)

C6_Witness ==
    /\ Symmetrized
    /\ IsSquare(force_constants)
    /\ Shape0(force_constants) = MaxAtoms
    /\ level = 0
    /\ force_constants # fc_in
    /\ \E i \in Rows, j \in Cols, a \in Axes, b \in Axes :
          force_constants[i][j][a][b] # RZero
    /\ \E i \in Rows : \E a \in Axes, b \in Axes :
          ~SumIsZero(SeqOf([j \in Cols |-> fc_in[i][j][a][b]],
                           Shape1(fc_in)), 0, 1)

(* C7: after symmetrize_force_constants (pure path, level >= 1) on a full  *)
(* square tensor, Phi[i, j, a, b] = Phi[j, i, b, a] for all atom pairs and *)
(* axes.                                                                   *)
C7_PermutationSymmetryAfterSymmetrize ==
    (Symmetrized /\ IsSquare(force_constants) /\ level >= 1) =>
        \A i \in Rows, j \in Cols, a \in Axes, b \in Axes :
            force_constants[i][j][a][b] = force_constants[j][i][b][a]

C7_Witness ==
    /\ Symmetrized
    /\ IsSquare(force_constants)
    /\ Shape0(force_constants) = MaxAtoms
    /\ level >= 1
    /\ \E i \in Rows, j \in Cols, a \in Axes, b \in Axes :
          /\ fc_in[i][j][a][b] # fc_in[j][i][b][a]
          /\ force_constants[i][j][a][b] # RZero
          /\ i # j /\ a # b

(* C8: set_permutation_symmetry on a full square tensor leaves in every    *)
(* element the average of its value before the call and the value before   *)
(* the call of the mirrored, transposed element.                           *)
C8_PermutationAverage ==
    (call = "set_permutation_symmetry" /\ IsSquare(fc_in)) =>
        /\ error = "none"
        /\ \A i \in Rows, j \in Cols, a \in Axes, b \in Axes :
              force_constants[i][j][a][b] =
                  RDiv(RAdd(fc_in[i][j][a][b], fc_in[j][i][b][a]), RInt(2))

C8_Witness ==
    /\ call = "set_permutation_symmetry"
    /\ IsSquare(fc_in)
    /\ Shape0(fc_in) = MaxAtoms
    /\ \E i \in Rows, j \in Cols, a \in Axes, b \in Axes :
          /\ i > j
          /\ fc_in[i][j][a][b] # fc_in[j][i][b][a]
          /\ fc_in[j][i][b][a] # RZero
          /\ force_constants[i][j][a][b] # fc_in[i][j][a][b]

-----------------------------------------------------------------------------
(* Claims on the cutoff (SpecCutoff) *)

CutoffCalled == call = "cutoff_force_constants"
CutoffRows == DOMAIN fc_in
CutoffCols == DOMAIN fc_in[0]
(* the atom of row i: itself in a full tensor, p2s_map[i] in a compact one *)
RowAtom(i) ==
    IF Cardinality(CutoffRows) = Cardinality(CutoffCols) THEN i
    ELSE primitive.p2s_map[i]
Distance(i, j) ==
    get_smallest_vectors(crystal.positions[RowAtom(i)], crystal.positions[j],
                         crystal.period)
LastRadius == args[Len(args)]

(* C13: after a cutoff, block (i, j) is zero when the distance of the row  *)
(* atom i and the column atom j is strictly greater than the radius, and   *)
(* is as before otherwise (also at a distance equal to the radius); with   *)
(* a radius not below the largest distance the tensor is as before.        *)
C13_CutoffExact ==
    CutoffCalled =>
        /\ \A i \in CutoffRows, j \in CutoffCols :
              force_constants[i][j] =
                  IF Distance(i, j) > LastRadius THEN MatZero
                  ELSE fc_in[i][j]
        /\ (\A i \in CutoffRows, j \in CutoffCols :
                LastRadius >= Distance(i, j)) => force_constants = fc_in

C13_Witness ==
    /\ CutoffCalled
    /\ Len(args) = 1
    /\ Cardinality(CutoffRows) < Cardinality(CutoffCols)
    /\ \E i \in CutoffRows, j \in CutoffCols, k \in CutoffCols :
          /\ Distance(i, j) = LastRadius
          /\ LastRadius > 0
          /\ force_constants[i][j] = fc_in[i][j]
          /\ fc_in[i][j] # MatZero
          /\ Distance(i, k) > LastRadius
          /\ force_constants[i][k] = MatZero
          /\ fc_in[i][k] # MatZero

(* C12: a block that a cutoff zeroes is zeroed by every smaller radius on  *)
(* the same tensor, and a cutoff that follows one of a smaller or equal    *)
(* radius changes nothing.                                                 *)
C12_CutoffMonotone ==
    CutoffCalled =>
        /\ \A r1 \in 0 .. LastRadius :
              \A fc1 \in {cutoff_force_constants(fc_in, crystal, primitive, r1)} :
                  \A i \in CutoffRows, j \in CutoffCols :
                      (force_constants[i][j] = MatZero /\ fc_in[i][j] # MatZero)
                          => fc1[i][j] = MatZero
        /\ (Len(args) = 2 /\ args[1] <= args[2]) => force_constants = fc_in

C12_Witness ==
    /\ CutoffCalled
    /\ Len(args) = 2
    /\ args[1] < args[2]
    /\ force_constants = fc_in
    /\ \E i \in CutoffRows, j \in CutoffCols, k \in CutoffCols :
          /\ Distance(i, j) > args[2]
          /\ Distance(i, k) > args[1]
          /\ Distance(i, k) <= args[2]
          /\ force_constants[i][k] = MatZero
    /\ \E i \in CutoffRows, j \in CutoffCols : force_constants[i][j] # MatZero

-----------------------------------------------------------------------------
(* Claims on the enforcers given a compact tensor (SpecSym) *)

Compact == Cardinality(Rows) < Cardinality(Cols)
PermutationRequested ==
    \/ call = "set_permutation_symmetry"
    \/ call = "symmetrize_force_constants" /\ level >= 1

(* C14: permutation symmetry requested on a tensor with fewer rows than    *)
(* columns, by set_permutation_symmetry or by symmetrize_force_constants   *)
(* without the native module and with level >= 1, ends in an exception.    *)
C14_CompactPermutationRaises ==
    (PermutationRequested /\ Compact) => error = "IndexError"

C14_Witness ==
    /\ call = "symmetrize_force_constants"
    /\ level = MaxLevel
    /\ ~phonoc
    /\ Compact
    /\ Cardinality(Rows) >= 2
    /\ error = "IndexError"

-----------------------------------------------------------------------------
(* Claims on the calls made without the native module (SpecFallback) *)

ImportingCalls ==
    {"symmetrize_force_constants", "symmetrize_compact_force_constants",
     "distribute_force_constants"}

(* C15: without the native module, symmetrize_force_constants on a full   *)
(* tensor, symmetrize_compact_force_constants on a compact tensor and      *)
(* distribute_force_constants with every atom reaching a done atom each    *)
(* return without an exception.                                            *)
C15_PureFallback ==
    (/\ ~phonoc
     /\ call \in ImportingCalls
     /\ call = "symmetrize_force_constants" => IsSquare(fc_in)
     /\ call = "distribute_force_constants" =>
            \A a \in AllAtoms : ~Unreachable(a))
        => error = "none"

(* what the code does instead: only symmetrize_force_constants has a pure *)
(* branch; the other two end in RuntimeError and ImportError with the      *)
(* tensor as it was                                                        *)
C15_OnlySymmetrizeFallsBack ==
    (~phonoc /\ call \in ImportingCalls) =>
        /\ (call = "symmetrize_force_constants" /\ IsSquare(fc_in))
              => error = "none"
        /\ call = "symmetrize_compact_force_constants"
              => (error = "RuntimeError" /\ force_constants = fc_in)
        /\ (call = "distribute_force_constants"
                /\ \A a \in AllAtoms : ~Unreachable(a))
              => (error = "ImportError" /\ force_constants = fc_in)

-----------------------------------------------------------------------------
(* Claims on the drift diagnostic (SpecDrift) *)

DriftCalled == call = "show_drift_force_constants"
Printed == trace[Len(trace)]
LastArgs == args[Len(args)]

(* C16: show_drift_force_constants on a full tensor leaves every element   *)
(* of the tensor as it was, whatever the tensor, name and values_only.     *)
C16_DriftReadOnly ==
    (DriftCalled /\ IsSquare(fc_in)) => force_constants = fc_in

C16_Witness ==
    /\ DriftCalled
    /\ IsSquare(fc_in)
    /\ Shape0(fc_in) >= 2
    /\ error = "none"
    /\ LastArgs.values_only
    /\ LastArgs.name = "fc2"
    /\ Printed.values[1] # 0
    /\ Printed.values[4] # 0
    /\ force_constants = fc_in

(* the (atom, a, b) triples in the order of the loop *)
Triples == (DOMAIN fc_in) \X Axes \X Axes
Before(u, t) ==
    ((u[1] * Dim) + u[2]) * Dim + u[3] < ((t[1] * Dim) + t[2]) * Dim + t[3]
Sum1(t) == SumOverFirst(fc_in, t[1], t[2], t[3])
Sum2(t) == SumOverSecond(fc_in, t[1], t[2], t[3])
(* t is the first triple at which the absolute value of the sum is largest *)
FirstMax1(t) ==
    /\ \A u \in Triples : ~RLess(RAbs(Sum1(t)), RAbs(Sum1(u)))
    /\ \A u \in Triples : Before(u, t) => RLess(RAbs(Sum1(u)), RAbs(Sum1(t)))
FirstMax2(t) ==
    /\ \A u \in Triples : ~RLess(RAbs(Sum2(t)), RAbs(Sum2(u)))
    /\ \A u \in Triples : Before(u, t) => RLess(RAbs(Sum2(u)), RAbs(Sum2(t)))

(* C18: on a full tensor the two values printed are the largest absolute   *)
(* value, over (atom, a, b), of the sum over the first atom index and of   *)
(* the sum over the second, each with the axes (a, b) of the first triple  *)
(* that attains it (0 and "xx" when every sum is zero).                    *)
C18_DriftMaxima ==
    (DriftCalled /\ error = "none") =>
        \E t1 \in Triples, t2 \in Triples :
            /\ FirstMax1(t1)
            /\ FirstMax2(t2)
            /\ Printed.values =
                  <<format_f(RAbs(Sum1(t1))), xyz(t1[2]), xyz(t1[3]),
                    format_f(RAbs(Sum2(t2))), xyz(t2[2]), xyz(t2[3])>>

(* what is printed: the sums themselves, with their signs *)
C18_SignedDrift ==
    (DriftCalled /\ error = "none") =>
        \E t1 \in Triples, t2 \in Triples :
            /\ FirstMax1(t1)
            /\ FirstMax2(t2)
            /\ Printed.values =
                  <<format_f(Sum1(t1)), xyz(t1[2]), xyz(t1[3]),
                    format_f(Sum2(t2)), xyz(t2[2]), xyz(t2[3])>>

-----------------------------------------------------------------------------
(* Claims on the order of the passes (SpecSym) *)

PerIndexPass(ix) ==
    [pass |-> "set_translational_invariance_per_index", index |-> ix]
PermutationPass == [pass |-> "set_permutation_symmetry", index |-> -1]
RECURSIVE Repetitions(_)
Repetitions(n) ==
    IF n = 0 THEN << >>
    ELSE <<PerIndexPass(0), PerIndexPass(1), PermutationPass>>
             \o Repetitions(n - 1)

(* C17: the passes of a symmetrize_force_constants that returned, without  *)
(* the native module, are level times [pass over index 0, pass over index  *)
(* 1, permutation averaging] and then one single-index pass, nothing else. *)
C17_OneMoreRowPass ==
    Symmetrized =>
        \E ix \in 0 .. 1 : trace = Repetitions(level) \o <<PerIndexPass(ix)>>

(* C17, amended: the loop is followed by the pass over index 0 and the     *)
(* pass over index 1, in this order, and nothing else.                     *)
C17_TwoMorePasses ==
    Symmetrized =>
        trace = Repetitions(level) \o <<PerIndexPass(0), PerIndexPass(1)>>

C17_Witness ==
    /\ Symmetrized
    /\ level = MaxLevel
    /\ Len(trace) = (3 * MaxLevel) + 2
    /\ Cardinality(Rows) >= 2
    /\ force_constants # fc_in

-----------------------------------------------------------------------------
(* Claims on set_tensor_symmetry with a group (SpecGroup) *)

Operation(s) ==
    [rot |-> geometry.rotations[s], trans |-> Frac(crystal.translations[s])]
Operations_ == {Operation(s) : s \in SymIndices}
(* "r, then the inverse of s" *)
InverseAfter(s, r) ==
    The({[rot |-> MatMul(S_inv, geometry.rotations[r]),
          trans |-> Frac(MatVec(S_inv, VecSub(crystal.translations[r],
                                              crystal.translations[s])))] :
         S_inv \in {MatInv(geometry.rotations[s])}})
(* the list holds every operation once and with two operations their       *)
(* product                                                                 *)
IsGroup ==
    /\ \A s \in SymIndices, r \in SymIndices :
          Operation(s) = Operation(r) => s = r
    /\ \A s \in SymIndices, r \in SymIndices :
          [rot |-> MatMul(geometry.rotations[s], geometry.rotations[r]),
           trans |-> Frac(VecAdd(MatVec(geometry.rotations[s],
                                        crystal.translations[r]),
                                 crystal.translations[s]))] \in Operations_
Mapa ==
    _get_atom_indices_by_symmetry(geometry.lattice, crystal.positions,
                                  geometry.rotations, crystal.translations)
EquivalentAtoms(i) == {j \in AllAtoms : crystal.map_atoms[j] = i}
SiteSymmetry(mapa, i) == {s \in SymIndices : mapa[s][i] = i}
(* the operations that enter the averaged row of i: the first operation    *)
(* that sends j onto i, then the inverse of a site-symmetry operation      *)
Contributions(mapa, i) ==
    [p \in EquivalentAtoms(i) \X SiteSymmetry(mapa, i) |->
        InverseAfter(p[2], first_rotation_onto(mapa, p[1], i, 0))]

(* C19: with the operations a group and map_atoms the orbit map, the       *)
(* assertion holds for every independent atom (the call returns), the      *)
(* number of equivalent atoms times the number of site-symmetry operations *)
(* is the number of operations, and the products "first operation onto i,  *)
(* then inverse site-symmetry operation" are all the operations of the     *)
(* group, each obtained once.                                              *)
C19_GroupCountsMatch ==
    (TensorSymCalled /\ IsGroup) =>
        /\ error = "none"
        /\ \A mapa \in {Mapa} : \A i \in DoneSet :
              /\ Cardinality(EquivalentAtoms(i))
                    * Cardinality(SiteSymmetry(mapa, i))
                 = permutations.num_rot
              /\ \A cart_rot \in {rots_cartesian(geometry.lattice,
                                                 geometry.rotations)} :
                    \A c \in {_combine_force_constants_equivalent_atoms(
                                 fc_in, i, cart_rot, crystal.map_atoms, mapa)} :
                        /\ c.num = Cardinality(EquivalentAtoms(i))
                        /\ _average_force_constants_by_sitesym(
                                 zeros_like(fc_in)[i], c.fc, i, cart_rot,
                                 mapa).num
                             = Cardinality(SiteSymmetry(mapa, i))
              /\ \A c \in {Contributions(mapa, i)} :
                    /\ Range(c) = Operations_
                    /\ \A p \in DOMAIN c, q \in DOMAIN c : c[p] = c[q] => p = q

C19_Witness ==
    /\ TensorSymCalled
    /\ IsGroup
    /\ error = "none"
    /\ permutations.num_pos = MaxAtoms
    /\ permutations.num_rot = 4 * MaxAtoms
    /\ geometry.rotations[0] # RotIdentity
    /\ force_constants # fc_in
    /\ \E i \in DoneSet : \E mapa \in {Mapa} :
          /\ Cardinality(EquivalentAtoms(i)) = MaxAtoms
          /\ Cardinality(SiteSymmetry(mapa, i)) = 4

-----------------------------------------------------------------------------
(* Claims on the solver's stacked system (SpecSolve) *)

SolveCalled == call = "_solve_force_constants_svd"
NDisp == Cardinality(DOMAIN dataset.displacements)
NSym == Cardinality(DOMAIN geometry.rotations)

(* C20: the displacement matrix and the force matrix of every atom i have  *)
(* n_disp * n_sym rows; row d * n_sym + s of the first is operation s (in  *)
(* Cartesian form) applied to displacement d, and row d * n_sym + s of the *)
(* second is the force of observation d on atom rot_map_syms[s][i],        *)
(* rotated by operation s.                                                 *)
C20_StackedRowsAligned ==
    SolveCalled =>
        /\ DOMAIN result.rot_disps = Atoms(NDisp * NSym)
        /\ \A i \in DOMAIN crystal.positions :
              DOMAIN result.combined_forces[i] = Atoms(NDisp * NSym)
        /\ \A s \in Atoms(NSym) : \A R \in {CartesianForm(s)} :
              \A d \in Atoms(NDisp) :
                  /\ result.rot_disps[(d * NSym) + s]
                        = MatVec(R, dataset.displacements[d])
                  /\ \A i \in DOMAIN crystal.positions :
                        result.combined_forces[i][(d * NSym) + s]
                            = MatVec(R, dataset.sets_of_forces[d]
                                            [result.rot_map_syms[s][i]])

C20_Witness ==
    /\ SolveCalled
    /\ NDisp = MaxDisp
    /\ NSym = MaxSiteSym
    /\ dataset.displacements[0] # dataset.displacements[1]
    /\ geometry.rotations[0] = RotFourfold
    /\ geometry.rotations[1] = MirrorX
    /\ result.rot_map_syms[0][1] # 1
    /\ result.rot_disps[1] # result.rot_disps[MaxSiteSym]
    /\ result.fc[1] # MatZero

-----------------------------------------------------------------------------
(* Claims on the harmonic potential energy (SpecEnergy) *)

EnergyCalled == call = "get_harmonic_potential_energy"
EnergyAtoms == DOMAIN fc_in

(* (1/2) sum over i, j, a, b of d[i][a] Phi[i][j][a][b] d[j][b] *)
HarmonicTerm(d, i, j, a, b) ==
    RMul(d[i][a], RMul(fc_in[i][j][a][b], d[j][b]))
SumOver(S, f(_)) == RSum(Array([x \in S |-> f(x)]), Cardinality(S))
HarmonicEnergy(d) ==
    RDiv(SumOver(EnergyAtoms, LAMBDA i : SumOver(EnergyAtoms, LAMBDA j :
            SumOver(Axes, LAMBDA a : SumOver(Axes, LAMBDA b :
                HarmonicTerm(d, i, j, a, b))))),
         RInt(2))

(* the displacement sets have one vector per atom of the tensor *)
Conforming ==
    /\ ndim(dataset) = 2 => dataset.shape[1] = Cardinality(EnergyAtoms)
    /\ ndim(dataset) = 3 => dataset.shape[2] = Cardinality(EnergyAtoms)

(* C21: get_harmonic_potential_energy raises RuntimeError, with no energy  *)
(* evaluated, when the tensor is not square in its atom indices and when   *)
(* the displacement array has neither 2 nor 3 dimensions; on a square      *)
(* tensor and displacements of its atoms, a 3-dimensional array returns    *)
(* the list of the energies of its sets in input order and a               *)
(* 2-dimensional array returns its single energy.                          *)
C21_EnergyShapeChecks ==
    EnergyCalled =>
        /\ (~IsSquare(fc_in) \/ ndim(dataset) \notin {2, 3}) =>
              /\ error = "RuntimeError"
              /\ result = None
              /\ trace[Len(trace)] = 0
        /\ (IsSquare(fc_in) /\ Conforming /\ ndim(dataset) = 3) =>
              /\ error = "none"
              /\ Len(result) = dataset.shape[1]
              /\ \A k \in 1 .. Len(result) :
                    result[k] = HarmonicEnergy(dataset.at[k - 1])
        /\ (IsSquare(fc_in) /\ Conforming /\ ndim(dataset) = 2) =>
              /\ error = "none"
              /\ result = HarmonicEnergy(dataset.at)

(* two sets of different, nonzero energy on a two-atom tensor *)
C21_Witness ==
    /\ EnergyCalled
    /\ error = "none"
    /\ ndim(dataset) = 3
    /\ Cardinality(EnergyAtoms) = 2
    /\ Len(result) = 2
    /\ result[1] # result[2]
    /\ result[1] # RZero
    /\ result[2] # RZero

-----------------------------------------------------------------------------
(* Claims on repeated symmetrization (SpecRepeat) *)

LastCall == trace[Len(trace)]
SymmetrizedAt(k) ==
    /\ trace[k].call = "symmetrize_force_constants"
    /\ trace[k].level >= 1

(* C23: on a full tensor the pure symmetrization of level >= 1 is          *)
(* idempotent: a second symmetrization of level >= 1 applied to the output *)
(* of a first one changes no element, and the output of any level >= 1 is  *)
(* the output of level 1 on the same input.                                *)
C23_SymmetrizeIdempotent ==
    \A k \in 1 .. Len(trace) :
        SymmetrizedAt(k) =>
            /\ trace[k].after =
                  symmetrize_force_constants(trace[k].before, 1).fc
            /\ (k > 1 /\ SymmetrizedAt(k - 1)) =>
                  trace[k].after = trace[k].before

(* a first symmetrization that changed the tensor, then a second one of    *)
(* another level                                                           *)
C23_Witness ==
    /\ Len(trace) = 2
    /\ SymmetrizedAt(1)
    /\ SymmetrizedAt(2)
    /\ trace[1].level # trace[2].level
    /\ trace[1].level = MaxLevel
    /\ trace[1].before # trace[1].after
    /\ Shape0(force_constants) = MaxAtoms
    /\ \E i \in DOMAIN force_constants : force_constants[i][i] # MatZero

PermutationSymmetric(fc) ==
    \A i \in DOMAIN fc : \A j \in DOMAIN fc :
        \A a \in Axes : \A b \in Axes : fc[i][j][a][b] = fc[j][i][b][a]

(* C24: set_translational_invariance keeps the permutation symmetry of a   *)
(* full tensor: when Phi[i][j][a][b] = Phi[j][i][b][a] everywhere before   *)
(* the call, the same holds after it.                                      *)
C24_TranslationKeepsPermutation ==
    \A k \in 1 .. Len(trace) :
        (/\ trace[k].call = "set_translational_invariance"
         /\ PermutationSymmetric(trace[k].before)) =>
            PermutationSymmetric(trace[k].after)

(* a permutation-symmetric tensor with drift, changed by the call *)
C24_Witness ==
    /\ Len(trace) = 2
    /\ trace[1].call = "set_permutation_symmetry"
    /\ trace[2].call = "set_translational_invariance"
    /\ PermutationSymmetric(trace[2].before)
    /\ trace[2].before # trace[2].after
    /\ Shape0(force_constants) = MaxAtoms
    /\ \E i \in DOMAIN force_constants : \E j \in DOMAIN force_constants :
          i # j /\ force_constants[i][j] # MatT(force_constants[i][j])

-----------------------------------------------------------------------------
(* Claims on the dataset loop (SpecDisps) *)

DispsCalled == call = "_get_force_constants_disps"
Entries == dataset.first_atoms
DisplacedNumbers == {Entries[e].number : e \in DOMAIN Entries}
EntriesOf(n) == {e \in DOMAIN Entries : Entries[e].number = n}

(* the k-th entry of atom n, counted in dataset order *)
NthEntryOf(n, k) ==
    CHOOSE e \in EntriesOf(n) :
        Cardinality({x \in EntriesOf(n) : x <= e}) = k

(* C25: a call that returns has called the solver once per distinct        *)
(* displaced atom of the dataset, in ascending order of the atom numbers,  *)
(* each time with the displacements and force sets of all and only the     *)
(* entries of that atom, paired and in dataset order, and returns the      *)
(* ascending list of the distinct displaced atoms.                         *)
C25_OneSolvePerDisplacedAtom ==
    (DispsCalled /\ error = "none") =>
        /\ Len(result) = Cardinality(DisplacedNumbers)
        /\ Range(result) = DisplacedNumbers
        /\ \A p \in 1 .. (Len(result) - 1) : result[p] < result[p + 1]
        /\ Len(trace) = Len(result)
        /\ \A p \in 1 .. Len(trace) :
              /\ trace[p].disp_atom_number = result[p]
              /\ Len(trace[p].disps) = Cardinality(EntriesOf(result[p]))
              /\ Len(trace[p].sets_of_forces) = Cardinality(EntriesOf(result[p]))
              /\ \A k \in 1 .. Len(trace[p].disps) :
                    /\ trace[p].disps[k] =
                          Entries[NthEntryOf(result[p], k)].displacement
                    /\ trace[p].sets_of_forces[k] =
                          Entries[NthEntryOf(result[p], k)].forces

(* two atoms entered in descending order, the first of them twice with    *)
(* different displacements                                                 *)
C25_Witness ==
    /\ DispsCalled
    /\ error = "none"
    /\ Len(Entries) = 3
    /\ Entries[1].number > Entries[3].number
    /\ Entries[2].number = Entries[1].number
    /\ Entries[2].displacement # Entries[1].displacement
    /\ Len(trace) = 2
    /\ Len(trace[2].disps) = 2
    /\ force_constants # fc_in

-----------------------------------------------------------------------------
(* Claims on solve_force_constants (SpecSolveRow) *)

SolveRowCalled == call = "solve_force_constants"
DisplacedAtom == args[Len(args)]
PositionsOf(atom) == {p \in DOMAIN atom_list : atom_list[p] = atom}

(* row of the displaced atom: its number, or its first position in         *)
(* atom_list counted from 0                                                *)
RowOfDisplaced ==
    IF atom_list = None THEN DisplacedAtom
    ELSE Least(PositionsOf(DisplacedAtom)) - 1

(* C26: a solve_force_constants call that returns has written the solved   *)
(* row to exactly one row of the tensor, row disp_atom_number when         *)
(* atom_list is None and otherwise the row at the first position of        *)
(* disp_atom_number in atom_list; every other row is as before the call.   *)
C26_OneRowWritten ==
    (SolveRowCalled /\ error = "none") =>
        /\ force_constants[RowOfDisplaced] = dataset.solution[DisplacedAtom]
        /\ \A i \in DOMAIN force_constants :
              i # RowOfDisplaced => force_constants[i] = fc_in[i]
        /\ DOMAIN force_constants = DOMAIN fc_in

(* the displaced atom stands twice in atom_list, first at a position that  *)
(* is not its number                                                       *)
C26_Witness ==
    /\ SolveRowCalled
    /\ error = "none"
    /\ atom_list # None
    /\ Cardinality(PositionsOf(DisplacedAtom)) = 2
    /\ RowOfDisplaced # DisplacedAtom
    /\ Len(atom_list) = MaxAtoms
    /\ force_constants # fc_in

(* C27: when atom_list is given and lacks the displaced atom, the call     *)
(* raises RuntimeError, the solver has not been run and the tensor is as   *)
(* it was before the call.                                                 *)
C27_AbsentAtomRaises ==
    (/\ SolveRowCalled
     /\ atom_list # None
     /\ PositionsOf(DisplacedAtom) = {}) =>
        /\ error = "RuntimeError"
        /\ trace = << >>
        /\ force_constants = fc_in

C27_Witness ==
    /\ SolveRowCalled
    /\ atom_list # None
    /\ PositionsOf(DisplacedAtom) = {}
    /\ error = "RuntimeError"
    /\ Len(atom_list) = MaxAtoms
    /\ DisplacedAtom < MaxAtoms - 1

-----------------------------------------------------------------------------
(* Claims on a failing permutation pass (SpecSym) *)

PermutationFailed ==
    /\ call = "set_permutation_symmetry"
    /\ error # "none"
    /\ Shape0(fc_in) < Shape1(fc_in)

(* C28: when set_permutation_symmetry fails on a compact tensor, the       *)
(* tensor is as it was before the call: no block has been overwritten.     *)
C28_UnchangedOnFailure ==
    PermutationFailed => force_constants = fc_in

(* what the loop has done when fc_copy[j, i] raises at i = 0, j = number   *)
(* of rows: the blocks (0, j) with j below the number of rows hold the     *)
(* average with the transposed block (j, 0), every other block is as       *)
(* before                                                                  *)
C28_FirstBlocksOverwritten ==
    PermutationFailed =>
        /\ error = "IndexError"
        /\ \A i \in DOMAIN fc_in : \A j \in DOMAIN fc_in[i] :
              force_constants[i][j] =
                  IF i = 0 /\ j < Shape0(fc_in)
                  THEN MatScale(MatAdd(fc_in[0][j], MatT(fc_in[j][0])),
                                <<1, 2>>)
                  ELSE fc_in[i][j]

C28_OverwrittenWitness ==
    /\ PermutationFailed
    /\ Shape0(fc_in) = MaxAtoms - 1
    /\ \E j \in 1 .. (Shape0(fc_in) - 1) : force_constants[0][j] # fc_in[0][j]
    /\ force_constants[0][0] # fc_in[0][0]

-----------------------------------------------------------------------------
(* Claims on the temperatures of ThermalProperties (SpecThermal) *)

Stored == thermal.temperatures
NonNegative(list) == SelectSeq(list, LAMBDA t : t[1] >= 0)
RMax(p, q) == IF RLess(p, q) THEN q ELSE p

C29_SetterWitness ==
    /\ call = "temperatures"
    /\ Len(args[1]) = MaxTemperatures
    /\ Len(Stored) = MaxTemperatures - 1
    /\ Len(Stored) >= 1
    /\ RLess(Stored[Len(Stored)], Stored[1])

-----------------------------------------------------------------------------
(* Claims on the mode sums of ThermalPropertiesBase (SpecThermalRun) *)

RunCalled == call \in {"run_free_energy", "run_heat_capacity", "run_entropy"}
RunTemperature == args[1]
Qpoints == DOMAIN thermal.frequencies
WeightSum == SumOver(Qpoints, LAMBDA q : RInt(thermal.weights[q]))

(* bands of q-point q with frequency strictly above the cutoff, ascending *)
BandsAbove(q) ==
    SortedList({b \in DOMAIN thermal.frequencies[q] :
        thermal.frequencies[q][b][1] * thermal.cutoff_frequency[2]
            > thermal.cutoff_frequency[1] * thermal.frequencies[q][b][2]})

(* weight of band b of q-point q in component i of the sum (i = -1: the    *)
(* total, without projection)                                              *)
ModeWeight(q, b, i) ==
    RDiv(RMul(RInt(thermal.weights[q]),
              IF i = -1 THEN RInt(1)
              ELSE RMul(thermal.eigenvectors[q][i][b],
                        thermal.eigenvectors[q][i][b])),
         WeightSum)

TemperatureFormula ==
    CASE call = "run_free_energy" -> "mode_F"
      [] call = "run_heat_capacity" -> "mode_cv"
      [] call = "run_entropy" -> "mode_S"

(* the terms func(t, freq) of the modes above the cutoff, q-point by       *)
(* q-point from q on                                                       *)
RECURSIVE TermsFrom(_, _)
TermsFrom(q, i) ==
    IF q \notin Qpoints THEN << >>
    ELSE [k \in DOMAIN BandsAbove(q) |->
             [coef |-> ModeWeight(q, BandsAbove(q)[k], i),
              func |-> TemperatureFormula,
              temp |-> RunTemperature,
              freq |-> thermal.frequencies[q][BandsAbove(q)[k]]]]
         \o TermsFrom(q + 1, i)

(* sum over the modes above the cutoff of weight times freq / 2 *)
SumOfList(list) == RSum(ArrayOf(list), Len(list))
ZeroPoint(i) ==
    SumOver(Qpoints, LAMBDA q :
        SumOfList([k \in DOMAIN BandsAbove(q) |->
            RMul(ModeWeight(q, BandsAbove(q)[k], i),
                 RDiv(thermal.frequencies[q][BandsAbove(q)[k]], RInt(2)))]))

Components ==
    IF thermal.is_projection THEN DOMAIN thermal.frequencies[0] ELSE {-1}
Component(i) == IF i = -1 THEN result.value ELSE result.value[i]

(* C30: for t <= 0 no temperature-dependent mode formula is evaluated:     *)
(* run_free_energy returns the zero-point sum of freq / 2 over the modes   *)
(* strictly above the cutoff frequency, run_heat_capacity and run_entropy  *)
(* return zero; for t > 0 the result is the sum of mode_F, mode_cv or      *)
(* mode_S at t over exactly the modes strictly above the cutoff.           *)
C30_NoFormulaAtOrBelowZero ==
    RunCalled =>
        /\ Len(trace) = Cardinality(Qpoints)
        /\ RunTemperature[1] <= 0 =>
              /\ \A k \in 1 .. Len(trace) :
                    /\ trace[k].temp = None
                    /\ trace[k].func =
                          IF call = "run_free_energy" THEN "mode_ZPE"
                          ELSE "mode_zero"
              /\ \A i \in Components :
                    /\ Component(i).sym = << >>
                    /\ Component(i).const =
                          IF call = "run_free_energy" THEN ZeroPoint(i)
                          ELSE RZero
        /\ RunTemperature[1] > 0 =>
              /\ \A k \in 1 .. Len(trace) :
                    /\ trace[k].temp = RunTemperature
                    /\ trace[k].func = TemperatureFormula
              /\ \A i \in Components :
                    /\ Component(i).const = RZero
                    /\ Component(i).sym = TermsFrom(0, i)

(* zero temperature, a nonzero cutoff, a mode at the cutoff and one below: *)
(* the zero-point energy counts the modes above only                       *)
C30_Witness ==
    /\ call = "run_free_energy"
    /\ RunTemperature = RZero
    /\ ~thermal.is_projection
    /\ thermal.cutoff_frequency # RZero
    /\ Cardinality(Qpoints) = MaxQpoints
    /\ \E q \in Qpoints : \E b \in DOMAIN thermal.frequencies[q] :
          thermal.frequencies[q][b] = thermal.cutoff_frequency
    /\ \E q \in Qpoints : Len(BandsAbove(q)) = 1
    /\ result.value.const # RZero

C30_FormulaWitness ==
    /\ call = "run_entropy"
    /\ RunTemperature[1] > 0
    /\ thermal.is_projection
    /\ Cardinality(Qpoints) = MaxQpoints
    /\ \E i \in Components : Len(result.value[i].sym) >= 2
    /\ \E q \in Qpoints :
          Len(BandsAbove(q)) < Cardinality(DOMAIN thermal.frequencies[q])

=============================================================================
